---- MODULE Spec2Model ----
\* Model of the AI provider factory (app/services/ai_service_factory.py):
\* the process-wide AIServiceFactory with its single cached service handle,
\* the settings object it reads, and callers of create_service() and
\* clear_cache(), sequentially (Spec) and from concurrent threads (ConcSpec);
\* the factory's diagnostic operations (HealthSpec, ProvidersSpec); the
\* create-enhancement route (RouteSpec); the text-to-speech service (TTSSpec);
\* the providers' enhance calls on a handle the factory returned
\* (ServiceSpec); the enhancements table with the endpoints that read it
\* (StoreSpec); and the prompt manager (PromptSpec).
EXTENDS Naturals, Sequences, FiniteSets

\* ---------------------------------------------------------------- bounds

\* Service objects that may be constructed in one behaviour (object identities).
MaxHandles == 3

\* ---------------------------------------------------------------- values

\* Callers (request threads) sharing the global factory instance.
Threads == {"t1", "t2"}

\* Python's None, for a settings value.
NoKey == "None"

\* A credential value is None or a non-empty string.
KeyValues == {NoKey, "test_key"}

\* Truthiness of a settings string: None and "" are falsy.
Truthy(v) == v # NoKey /\ v # ""

\* Values settings.ai_provider takes: the two supported names, and a name the
\* factory does not support (settings is assignable without re-validation).
ProviderNames == {"gemini", "openai", "invalid_provider"}

\* Providers that have a service class.
Backends == {"gemini", "openai"}

\* Values of settings.openai_model used here: a vision model and a text model.
OpenAIModels == {"gpt-4-vision-preview", "gpt-4"}

gemini_model == "models/gemini-2.5-flash-lite"

\* The empty cache slot (self._service_cache = None), shaped like a handle.
None == [id |-> 0, name |-> "None", model |-> "None"]

\* A fully constructed service object: identity, provider name and model.
IsHandle(h) == h.id >= 1 /\ h.name \in Backends /\ h.model # "None"

\* Truthiness of the cache slot (`if self._service_cache:`).
IsSet(h) == h # None

VARIABLES
    settings,        \* the global settings object (fields the factory reads)
    backend_ok,      \* per provider: does the provider class's __init__ succeed
    enable_fallback, \* AIServiceFactory.enable_fallback
    _service_cache,  \* AIServiceFactory._service_cache
    next_id,         \* identity of the next service object constructed
    pc,              \* per thread: position inside create_service()
    primary_provider,\* per thread: local primary_provider
    e,               \* per thread: the primary's exception text (local e)
    fallback_providers, \* per thread: the fallback candidates not yet tried
    service,         \* per thread: local service
    result,          \* per thread: what the finished call returned or raised
    tried,           \* per thread: providers whose construction the call attempted
    logged,          \* per thread: fallback failure texts written to the log
    cachedAtCheck,   \* per thread: the cache slot as read by the call's cache check
    sawClear,        \* per thread: clear_cache() ran after the call began
    lastCleared,     \* the handle the latest clear_cache() discarded
    dirty,           \* a handle was stored since the latest clear_cache()
    armed,           \* clear_cache() ran and no call has started since
    firstAfterClear, \* per thread: the call is the first started after a clear
    probe,           \* what the latest diagnostic call on the factory returned
    probed,          \* identities of the service objects health_check() built
    route,           \* the create-enhancement request being served
    tts,             \* the TTSService instance and its latest generate_audio call
    invocation,      \* the latest enhance call made on a provider handle
    store,           \* the enhancements table and the latest read endpoint's answer
    prompts          \* the PromptManager, its files and its latest get_prompt call

env == <<settings, backend_ok, enable_fallback>>
locals == <<primary_provider, e, fallback_providers, service>>
ghost == <<cachedAtCheck, sawClear, lastCleared, dirty, armed, firstAfterClear>>
vars == <<settings, backend_ok, enable_fallback, _service_cache, next_id, pc,
          primary_provider, e, fallback_providers, service, result, tried,
          logged, cachedAtCheck, sawClear, lastCleared, dirty, armed,
          firstAfterClear, probe, probed, route, tts, invocation, store, prompts>>

\* The state of the factory's diagnostics, of the route and of the TTS service.
diag == <<probe, probed>>
beyond == <<route, tts, invocation, store, prompts>>

\* The state of the factory and of its callers.
factory ==
    <<settings, backend_ok, enable_fallback, _service_cache, next_id, pc,
      primary_provider, e, fallback_providers, service, result, tried, logged,
      cachedAtCheck, sawClear, lastCleared, dirty, armed, firstAfterClear>>

\* ------------------------------------------------------- pure functions

\* The key a provider requires.
KeyOf(s, provider) ==
    IF provider = "gemini" THEN s.gemini_api_key ELSE s.openai_api_key

\* Variant of get_available_providers that forgets the OpenAI credential.
get_available_providers_gemini_only(s) ==
    IF Truthy(s.gemini_api_key) THEN <<"gemini">> ELSE <<>>

\* Variant of get_available_providers that lists openai first.
get_available_providers_openai_first(s) ==
    (IF Truthy(s.openai_api_key) THEN <<"openai">> ELSE <<>>)
    \o (IF Truthy(s.gemini_api_key) THEN <<"gemini">> ELSE <<>>)

\* AIServiceFactory.get_available_providers: gemini first, then openai.
get_available_providers(s) ==
    (IF Truthy(s.gemini_api_key) THEN <<"gemini">> ELSE <<>>)
    \o (IF Truthy(s.openai_api_key) THEN <<"openai">> ELSE <<>>)

\* A fallback list that leaves the primary in.
FallbackList_keeps_primary(available, primary) == available

\* fallback_providers = [p for p in available_providers if p != primary_provider]
FallbackList(available, primary) ==
    SelectSeq(available, LAMBDA p : p # primary)

\* Outcome of a construction: a service object or an exception text.
Ok(h) == [ok |-> TRUE, service |-> h, error |-> ""]
Fail(msg) == [ok |-> FALSE, service |-> None, error |-> msg]

\* AIServiceFactory._create_gemini_service
_create_gemini_service(s, ok, id) ==
    IF ~Truthy(s.gemini_api_key)
    THEN Fail("Gemini API key is required but not provided")
    ELSE IF ok["gemini"]
         THEN Ok([id |-> id, name |-> "gemini", model |-> gemini_model])
         ELSE Fail("Gemini service unavailable")

\* AIServiceFactory._create_openai_service
_create_openai_service(s, ok, id) ==
    IF ~Truthy(s.openai_api_key)
    THEN Fail("OpenAI API key is required but not provided")
    ELSE IF ok["openai"]
         THEN Ok([id |-> id, name |-> "openai", model |-> s.openai_model])
         ELSE Fail("OpenAI service unavailable")

\* AIServiceFactory._create_service_for_provider
_create_service_for_provider(provider, s, ok, id) ==
    IF provider = "gemini" THEN _create_gemini_service(s, ok, id)
    ELSE IF provider = "openai" THEN _create_openai_service(s, ok, id)
    ELSE Fail("Unsupported AI provider: " \o provider)

\* What a finished call hands to its caller.
Return(h) == [kind |-> "return", value |-> h, error |-> "", message |-> <<>>]
Raise(err, msg) == [kind |-> "raise", value |-> None, error |-> err, message |-> msg]
NoResult == [kind |-> "none", value |-> None, error |-> "", message |-> <<>>]

\* f"Failed to create {primary_provider} service: {str(e)}"
PrimaryOnlyMessage(primary, reason) ==
    <<"Failed to create ", primary, " service: ", reason>>

\* f"Failed to create any AI service. Primary: {str(e)}"
TerminalMessage(reason) ==
    <<"Failed to create any AI service. Primary: ", reason>>

\* No diagnostic call has been made on the factory.
NoProbe == [op |-> "none", providers |-> <<>>, earlier |-> <<>>, status |-> <<>>]

\* No create-enhancement request has been received.
NoRequest ==
    [pc |-> "none",
     request |-> [kind |-> "none", photo_base64 |-> <<>>, transcript |-> <<>>,
                  language |-> "en"],
     GEMINI_API_KEY |-> NoKey, user_id |-> "None", enhancement_id |-> 0,
     constructed |-> <<>>, remote_calls |-> <<>>, remote |-> "none",
     error |-> <<>>, saved |-> FALSE, status |-> 0, detail |-> <<>>]

\* No TTSService has been constructed.
NoTTS ==
    [pc |-> "none", openai_client |-> FALSE, elevenlabs_client |-> FALSE,
     tts_provider |-> "mock", tts_voice |-> "alloy",
     text |-> <<>>, language |-> "en", voice |-> "None",
     generator |-> "none", handed |-> <<>>, client_calls |-> <<>>,
     remote |-> "none", outcome |-> "none", audio |-> "", format |-> "None", error |-> <<>>,
     calls |-> 0, handed_before |-> <<>>]

\* No enhance call has been made on a provider handle.
NoCall ==
    [pc |-> "none", provider |-> "None", method |-> "none",
     photo_base64 |-> <<>>, transcript |-> <<>>, language |-> "en",
     remote_calls |-> 0, remote |-> "none", outcome |-> "none",
     error |-> <<>>, enhanced_transcript |-> <<>>, insights |-> {}]

\* No read endpoint has answered.  owner is the user_id of the row that
\* has the requested id, whoever asks ("None" when there is no such row).
NoReply ==
    [endpoint |-> "none", enhancement_id |-> 0, user_id |-> "None",
     query |-> "none", owner |-> "None", status |-> 0, ids |-> {},
     audio_status |-> "None", audio_base64 |-> "", audio_format |-> "None"]

\* The enhancements table is empty and no enhancement id has been issued.
EmptyStore == [issued |-> 0, rows |-> {}, reply |-> NoReply]

\* The prompt categories of the configuration file.
Categories == {"social", "professional"}

\* A prompt file that is not there, and a cache entry that is not there.
NoFile == [exists |-> FALSE, mtime |-> 0, kind |-> "none", version |-> 0]
NoTemplate == 0

\* No PromptManager has been constructed.
NoPrompts ==
    [pc |-> "none", hot_reload |-> FALSE,
     files |-> [c \in Categories |-> NoFile],
     _prompt_cache |-> [c \in Categories |-> NoTemplate],
     _file_mtimes |-> [c \in Categories |-> 0],
     category |-> "None", reload |-> "none", outcome |-> "none",
     template |-> NoTemplate]

\* ------------------------------------------------------------------ Init

SettingsValues ==
    [ai_provider : ProviderNames, gemini_api_key : KeyValues,
     openai_api_key : KeyValues, openai_model : OpenAIModels]

FactoryInit ==
    /\ settings \in SettingsValues
    /\ backend_ok \in [Backends -> BOOLEAN]
    /\ enable_fallback \in BOOLEAN
    /\ _service_cache = None
    /\ next_id = 1
    /\ pc = [t \in Threads |-> "idle"]
    /\ primary_provider = [t \in Threads |-> "None"]
    /\ e = [t \in Threads |-> ""]
    /\ fallback_providers = [t \in Threads |-> <<>>]
    /\ service = [t \in Threads |-> None]
    /\ result = [t \in Threads |-> NoResult]
    /\ tried = [t \in Threads |-> <<>>]
    /\ logged = [t \in Threads |-> <<>>]
    /\ cachedAtCheck = [t \in Threads |-> None]
    /\ sawClear = [t \in Threads |-> FALSE]
    /\ lastCleared = None
    /\ dirty = FALSE
    /\ armed = FALSE
    /\ firstAfterClear = [t \in Threads |-> FALSE]

Init ==
    /\ FactoryInit
    /\ probe = NoProbe
    /\ probed = {}
    /\ route = NoRequest
    /\ tts = NoTTS
    /\ invocation = NoCall
    /\ store = EmptyStore
    /\ prompts = NoPrompts

\* --------------------------------------------------- create_service steps

\* No call is between its first and its last step.
Quiet == \A t \in Threads : pc[t] \in {"idle", "done"}

\* Calls that have passed the cache check and not finished.
InFlight == {t \in Threads : pc[t] \notin {"idle", "done"}}

\* Line 43, `if self._service_cache:`: the call starts and reads the cache slot.
cs_check_cache(t) ==
    /\ pc[t] \in {"idle", "done"}
    /\ IsSet(_service_cache) \/ next_id + Cardinality(InFlight) <= MaxHandles
    /\ pc' = [pc EXCEPT ![t] =
                IF IsSet(_service_cache) THEN "return_cached" ELSE "create_primary"]
    /\ primary_provider' = [primary_provider EXCEPT ![t] = "None"]
    /\ e' = [e EXCEPT ![t] = ""]
    /\ fallback_providers' = [fallback_providers EXCEPT ![t] = <<>>]
    /\ service' = [service EXCEPT ![t] = None]
    /\ result' = [result EXCEPT ![t] = NoResult]
    /\ tried' = [tried EXCEPT ![t] = <<>>]
    /\ logged' = [logged EXCEPT ![t] = <<>>]
    /\ cachedAtCheck' = [cachedAtCheck EXCEPT ![t] = _service_cache]
    /\ sawClear' = [sawClear EXCEPT ![t] = FALSE]
    /\ firstAfterClear' = [firstAfterClear EXCEPT ![t] = armed]
    /\ armed' = FALSE
    /\ UNCHANGED <<env, _service_cache, next_id, lastCleared, dirty>>

\* Variant of the cached return that re-validates the cached provider's
\* credential and constructs again when it is gone.
cs_return_cached_revalidating(t) ==
    /\ pc[t] = "return_cached"
    /\ IF Truthy(KeyOf(settings, _service_cache.name))
       THEN /\ result' = [result EXCEPT ![t] = Return(_service_cache)]
            /\ pc' = [pc EXCEPT ![t] = "done"]
       ELSE /\ pc' = [pc EXCEPT ![t] = "create_primary"]
            /\ result' = result
    /\ UNCHANGED <<env, _service_cache, next_id, locals, tried, logged, ghost>>

\* Line 44, `return self._service_cache`: the slot is read a second time.
cs_return_cached(t) ==
    /\ pc[t] = "return_cached"
    /\ result' = [result EXCEPT ![t] = Return(_service_cache)]
    /\ pc' = [pc EXCEPT ![t] = "done"]
    /\ UNCHANGED <<env, _service_cache, next_id, locals, tried, logged, ghost>>

\* Lines 46-50 and 55-56: read the primary's name and try to construct it.
cs_create_primary(t) ==
    /\ pc[t] = "create_primary"
    /\ LET p == settings.ai_provider
           r == _create_service_for_provider(p, settings, backend_ok, next_id)
       IN /\ primary_provider' = [primary_provider EXCEPT ![t] = p]
          /\ tried' = [tried EXCEPT ![t] = Append(@, p)]
          /\ IF r.ok
             THEN /\ service' = [service EXCEPT ![t] = r.service]
                  /\ next_id' = next_id + 1
                  /\ pc' = [pc EXCEPT ![t] = "cache_primary"]
                  /\ e' = e
             ELSE /\ e' = [e EXCEPT ![t] = r.error]
                  /\ pc' = [pc EXCEPT ![t] = "except"]
                  /\ UNCHANGED <<service, next_id>>
    /\ UNCHANGED <<env, _service_cache, fallback_providers, result, logged, ghost>>

\* Variant of the store-and-return step that returns without caching.
StoreAndReturn_without_store(t) ==
    /\ _service_cache' = _service_cache
    /\ result' = [result EXCEPT ![t] = Return(service[t])]
    /\ pc' = [pc EXCEPT ![t] = "done"]
    /\ UNCHANGED <<env, next_id, locals, tried, logged, ghost>>

\* The cache write `self._service_cache = service` followed by `return service`.
StoreAndReturn(t) ==
    /\ _service_cache' = service[t]
    /\ result' = [result EXCEPT ![t] = Return(service[t])]
    /\ pc' = [pc EXCEPT ![t] = "done"]
    /\ dirty' = TRUE
    /\ UNCHANGED <<env, next_id, locals, tried, logged, cachedAtCheck, sawClear,
                   lastCleared, armed, firstAfterClear>>

\* Lines 51-53: cache the primary's service and return it.
cs_cache_primary(t) ==
    /\ pc[t] = "cache_primary"
    /\ StoreAndReturn(t)

\* Lines 58-59: with fallback disabled the primary's failure is raised at once.
cs_raise_no_fallback(t) ==
    /\ pc[t] = "except"
    /\ ~enable_fallback
    /\ result' = [result EXCEPT ![t] =
            Raise("AIServiceError", PrimaryOnlyMessage(primary_provider[t], e[t]))]
    /\ pc' = [pc EXCEPT ![t] = "done"]
    /\ UNCHANGED <<env, _service_cache, next_id, locals, tried, logged, ghost>>

\* Variant of the fallback branch that ignores enable_fallback.
cs_list_fallbacks_unguarded(t) ==
    /\ pc[t] = "except"
    /\ fallback_providers' = [fallback_providers EXCEPT ![t] =
            FallbackList(get_available_providers(settings), primary_provider[t])]
    /\ pc' = [pc EXCEPT ![t] = "fallback"]
    /\ UNCHANGED <<env, _service_cache, next_id, primary_provider, e, service,
                   result, tried, logged, ghost>>

\* Lines 61-63: compute the fallback candidates.
cs_list_fallbacks(t) ==
    /\ pc[t] = "except"
    /\ enable_fallback
    /\ fallback_providers' = [fallback_providers EXCEPT ![t] =
            FallbackList(get_available_providers(settings), primary_provider[t])]
    /\ pc' = [pc EXCEPT ![t] = "fallback"]
    /\ UNCHANGED <<env, _service_cache, next_id, primary_provider, e, service,
                   result, tried, logged, ghost>>

\* Lines 65-68 and 72-74: try the next fallback candidate.
cs_try_fallback(t) ==
    /\ pc[t] = "fallback"
    /\ fallback_providers[t] # <<>>
    /\ LET p == Head(fallback_providers[t])
           r == _create_service_for_provider(p, settings, backend_ok, next_id)
       IN /\ tried' = [tried EXCEPT ![t] = Append(@, p)]
          /\ fallback_providers' = [fallback_providers EXCEPT ![t] = Tail(@)]
          /\ IF r.ok
             THEN /\ service' = [service EXCEPT ![t] = r.service]
                  /\ next_id' = next_id + 1
                  /\ pc' = [pc EXCEPT ![t] = "cache_fallback"]
                  /\ logged' = logged
             ELSE /\ logged' = [logged EXCEPT ![t] = Append(@, r.error)]
                  /\ pc' = pc
                  /\ UNCHANGED <<service, next_id>>
    /\ UNCHANGED <<env, _service_cache, primary_provider, e, result, ghost>>

\* Lines 69-71: cache the fallback's service and return it.
cs_cache_fallback(t) ==
    /\ pc[t] = "cache_fallback"
    /\ StoreAndReturn(t)

\* Variant of the terminal failure that returns None instead of raising.
cs_return_none_all_failed(t) ==
    /\ pc[t] = "fallback"
    /\ fallback_providers[t] = <<>>
    /\ result' = [result EXCEPT ![t] = Return(None)]
    /\ pc' = [pc EXCEPT ![t] = "done"]
    /\ UNCHANGED <<env, _service_cache, next_id, locals, tried, logged, ghost>>

\* Variant of the terminal failure that cites the latest failure seen.
cs_raise_last_failure(t) ==
    /\ pc[t] = "fallback"
    /\ fallback_providers[t] = <<>>
    /\ result' = [result EXCEPT ![t] =
            Raise("AIServiceError",
                  TerminalMessage(IF logged[t] = <<>> THEN e[t]
                                  ELSE logged[t][Len(logged[t])]))]
    /\ pc' = [pc EXCEPT ![t] = "done"]
    /\ UNCHANGED <<env, _service_cache, next_id, locals, tried, logged, ghost>>

\* Line 77: every candidate failed.
cs_raise_all_failed(t) ==
    /\ pc[t] = "fallback"
    /\ fallback_providers[t] = <<>>
    /\ result' = [result EXCEPT ![t] =
            Raise("AIServiceError", TerminalMessage(e[t]))]
    /\ pc' = [pc EXCEPT ![t] = "done"]
    /\ UNCHANGED <<env, _service_cache, next_id, locals, tried, logged, ghost>>

\* The steps of a call after its cache check.
create_service(t) ==
    \/ cs_return_cached(t)
    \/ cs_create_primary(t)
    \/ cs_cache_primary(t)
    \/ cs_raise_no_fallback(t)
    \/ cs_list_fallbacks(t)
    \/ cs_try_fallback(t)
    \/ cs_cache_fallback(t)
    \/ cs_raise_all_failed(t)

\* ------------------------------------------------------------ clear_cache

\* Variant of clear_cache that logs the clear and leaves the slot as it is.
clear_cache_keeps_handle ==
    /\ _service_cache' = _service_cache
    /\ lastCleared' = _service_cache
    /\ sawClear' = [t \in Threads |-> TRUE]
    /\ dirty' = FALSE
    /\ armed' = TRUE
    /\ UNCHANGED <<env, next_id, pc, locals, result, tried, logged, cachedAtCheck,
                   firstAfterClear>>

\* Variant of clear_cache that also takes back the handles already returned.
clear_cache_revoking ==
    /\ _service_cache' = None
    /\ lastCleared' = _service_cache
    /\ sawClear' = [t \in Threads |-> TRUE]
    /\ dirty' = FALSE
    /\ armed' = TRUE
    /\ result' = [t \in Threads |->
                    IF result[t].kind = "return" THEN Return(None) ELSE result[t]]
    /\ UNCHANGED <<env, next_id, pc, locals, tried, logged, cachedAtCheck,
                   firstAfterClear>>

\* AIServiceFactory.clear_cache: one store of None into the slot.
clear_cache ==
    /\ _service_cache' = None
    /\ lastCleared' = _service_cache
    /\ sawClear' = [t \in Threads |-> TRUE]
    /\ dirty' = FALSE
    /\ armed' = TRUE
    /\ UNCHANGED <<env, next_id, pc, locals, result, tried, logged, cachedAtCheck,
                   firstAfterClear>>

\* ------------------------------------------------------------ environment

\* Configuration changes (a reload, or a test patching settings).
set_ai_provider(p) ==
    /\ settings.ai_provider # p
    /\ settings' = [settings EXCEPT !.ai_provider = p]
    /\ UNCHANGED <<backend_ok, enable_fallback, _service_cache, next_id, pc, locals,
                   result, tried, logged, ghost>>

set_gemini_api_key(v) ==
    /\ settings.gemini_api_key # v
    /\ settings' = [settings EXCEPT !.gemini_api_key = v]
    /\ UNCHANGED <<backend_ok, enable_fallback, _service_cache, next_id, pc, locals,
                   result, tried, logged, ghost>>

set_openai_api_key(v) ==
    /\ settings.openai_api_key # v
    /\ settings' = [settings EXCEPT !.openai_api_key = v]
    /\ UNCHANGED <<backend_ok, enable_fallback, _service_cache, next_id, pc, locals,
                   result, tried, logged, ghost>>

set_openai_model(m) ==
    /\ settings.openai_model # m
    /\ settings' = [settings EXCEPT !.openai_model = m]
    /\ UNCHANGED <<backend_ok, enable_fallback, _service_cache, next_id, pc, locals,
                   result, tried, logged, ghost>>

\* The provider's backend starts or stops accepting client construction.
set_backend(p, b) ==
    /\ backend_ok[p] # b
    /\ backend_ok' = [backend_ok EXCEPT ![p] = b]
    /\ UNCHANGED <<settings, enable_fallback, _service_cache, next_id, pc, locals,
                   result, tried, logged, ghost>>

Reconfigure ==
    \/ \E p \in ProviderNames : set_ai_provider(p)
    \/ \E v \in KeyValues : set_gemini_api_key(v)
    \/ \E v \in KeyValues : set_openai_api_key(v)
    \/ \E m \in OpenAIModels : set_openai_model(m)
    \/ \E p \in Backends, b \in BOOLEAN : set_backend(p, b)

\* -------------------------------------------------------- specifications

\* Sequential use: one caller; a call, a clear or a configuration change starts
\* only when the previous call has finished.
Caller == "t1"

Next ==
    \/ Quiet /\ cs_check_cache(Caller) /\ UNCHANGED <<diag, beyond>>
    \/ create_service(Caller) /\ UNCHANGED <<diag, beyond>>
    \/ Quiet /\ clear_cache /\ UNCHANGED <<diag, beyond>>
    \/ Quiet /\ Reconfigure /\ UNCHANGED <<diag, beyond>>

Spec == Init /\ [][Next]_vars

\* Concurrent use: the steps of the callers' create_service() calls and
\* clear_cache() interleave freely. The configuration is any one of the
\* configurations of Init and stays as it is while the calls race.
ConcNext ==
    \/ \E t \in Threads : cs_check_cache(t) /\ UNCHANGED <<diag, beyond>>
    \/ \E t \in Threads : create_service(t) /\ UNCHANGED <<diag, beyond>>
    \/ clear_cache /\ UNCHANGED <<diag, beyond>>

ConcSpec == Init /\ [][ConcNext]_vars

\* ----------------------------------------------------------- properties

\* The step in which thread t's create_service() call finishes.
Completes(t) == pc[t] # "done" /\ pc'[t] = "done"

\* The step in which thread t's create_service() call starts.
Begins(t) == pc[t] \in {"idle", "done"} /\ pc'[t] \notin {"idle", "done"}

\* A provider that constructs under configuration s and backend state ok:
\* it has a service class, its credential is present and its client starts.
Constructible(p, s, ok) == p \in Backends /\ Truthy(KeyOf(s, p)) /\ ok[p]

\* The text part `part` occurs in the message.
Contains(message, part) == \E i \in DOMAIN message : message[i] = part

\* C1: a finished call that found a handle in the cache returned that very
\* handle and attempted no construction, whatever the configuration is now.
C1_CachedHandleReturned ==
    \A t \in Threads :
        (pc[t] = "done" /\ IsSet(cachedAtCheck[t]))
            => /\ result[t] = Return(cachedAtCheck[t])
               /\ tried[t] = <<>>

\* C1 witness: a cached gemini handle was returned although the primary is
\* now openai and the gemini credential is gone.
C1_Witness ==
    /\ pc[Caller] = "done"
    /\ IsSet(cachedAtCheck[Caller])
    /\ result[Caller].value.name = "gemini"
    /\ settings.ai_provider = "openai"
    /\ ~Truthy(settings.gemini_api_key)
    /\ Truthy(settings.openai_api_key)

\* C2: with fallback enabled, a primary without credential and the other
\* provider's credential present and its client starting, the call returns
\* the other provider's handle and that handle is the cached one.
C2_FallbackWhenPrimaryHasNoKey ==
    [][\A t \in Threads : \A other \in Backends :
        (/\ Completes(t)
         /\ ~IsSet(cachedAtCheck[t])
         /\ enable_fallback
         /\ settings.ai_provider \in Backends \ {other}
         /\ ~Truthy(KeyOf(settings, settings.ai_provider))
         /\ Constructible(other, settings, backend_ok))
        => /\ result'[t].kind = "return"
           /\ IsHandle(result'[t].value)
           /\ result'[t].value.name = other
           /\ _service_cache' = result'[t].value]_vars

\* C2 witness: primary gemini without key, OpenAI key present: an openai
\* handle was returned and is cached.
C2_Witness ==
    /\ pc[Caller] = "done"
    /\ enable_fallback
    /\ settings.ai_provider = "gemini"
    /\ ~Truthy(settings.gemini_api_key)
    /\ tried[Caller] = <<"gemini", "openai">>
    /\ result[Caller].kind = "return"
    /\ result[Caller].value.name = "openai"
    /\ _service_cache = result[Caller].value

\* Every provider the call may try fails: the primary, and with fallback
\* enabled every other provider.
AllFail(s, ok, fallback) ==
    /\ ~Constructible(s.ai_provider, s, ok)
    /\ fallback => \A p \in Backends \ {s.ai_provider} : ~Constructible(p, s, ok)

\* C3: when the primary and every fallback candidate fail, the call raises
\* the factory error and the cache stays empty; the call that follows a
\* raised error attempts construction again.
C3_AllFailRaisesAndCachesNothing ==
    [][\A t \in Threads :
        /\ (Completes(t) /\ ~IsSet(cachedAtCheck[t])
               /\ AllFail(settings, backend_ok, enable_fallback))
            => /\ result'[t].kind = "raise"
               /\ result'[t].error = "AIServiceError"
               /\ _service_cache' = None
        /\ (Begins(t) /\ result[t].kind = "raise")
            => pc'[t] = "create_primary"]_vars

\* C3 witness: a call has raised after trying the primary and one fallback,
\* and the cache is empty.
C3_Witness ==
    /\ pc[Caller] = "done"
    /\ result[Caller].kind = "raise"
    /\ Len(tried[Caller]) = 2
    /\ _service_cache = None
    /\ AllFail(settings, backend_ok, enable_fallback)
    /\ enable_fallback

\* C4: with fallback disabled and the primary failing, the call raises the
\* factory error having tried the primary only, and caches nothing.
C4_NoFallbackRaisesAtOnce ==
    [][\A t \in Threads :
        (/\ Completes(t)
         /\ ~IsSet(cachedAtCheck[t])
         /\ ~enable_fallback
         /\ ~Constructible(settings.ai_provider, settings, backend_ok))
        => /\ result'[t].kind = "raise"
           /\ result'[t].error = "AIServiceError"
           /\ tried'[t] = <<settings.ai_provider>>
           /\ _service_cache' = None]_vars

\* C4 witness: fallback disabled, gemini failed, and openai, whose key is
\* present and whose client would start, was not tried.
C4_Witness ==
    /\ pc[Caller] = "done"
    /\ ~enable_fallback
    /\ result[Caller].kind = "raise"
    /\ tried[Caller] = <<"gemini">>
    /\ settings.ai_provider = "gemini"
    /\ Constructible("openai", settings, backend_ok)

\* The order in which providers are declared available.
DeclaredOrder == <<"gemini", "openai">>

\* The fallback candidates: providers with a credential, in declared order,
\* without the primary.
Candidates(s) ==
    SelectSeq(DeclaredOrder, LAMBDA p : Truthy(KeyOf(s, p)) /\ p # s.ai_provider)

\* Position of the first candidate whose client starts, 0 when there is none.
FirstOk(cands, ok) ==
    IF \E i \in DOMAIN cands : ok[cands[i]]
    THEN CHOOSE i \in DOMAIN cands :
            ok[cands[i]] /\ \A j \in DOMAIN cands : j < i => ~ok[cands[j]]
    ELSE 0

\* C5: with fallback enabled and the primary failing, the call tries the
\* candidates in declared order up to and including the first that
\* constructs, returns and caches that one, and raises when there is none;
\* the model of the chosen provider plays no part.
C5_FallbackInDeclaredOrder ==
    [][\A t \in Threads :
        (/\ Completes(t)
         /\ ~IsSet(cachedAtCheck[t])
         /\ enable_fallback
         /\ ~Constructible(settings.ai_provider, settings, backend_ok))
        => LET c == Candidates(settings)
               k == FirstOk(c, backend_ok)
           IN IF k > 0
              THEN /\ tried'[t] = <<settings.ai_provider>> \o SubSeq(c, 1, k)
                   /\ result'[t].kind = "return"
                   /\ result'[t].value.name = c[k]
                   /\ _service_cache' = result'[t].value
              ELSE /\ tried'[t] = <<settings.ai_provider>> \o c
                   /\ result'[t].kind = "raise"]_vars

\* C5 witness: an unsupported primary, both credentials present, gemini's
\* client failing: gemini was tried before openai, and the openai handle was
\* returned although its model is the text-only one.
C5_Witness ==
    /\ pc[Caller] = "done"
    /\ enable_fallback
    /\ tried[Caller] = <<"invalid_provider", "gemini", "openai">>
    /\ result[Caller].kind = "return"
    /\ result[Caller].value.name = "openai"
    /\ result[Caller].value.model = "gpt-4"
    /\ _service_cache = result[Caller].value

\* C6: a call that raises raises the factory error; its message carries the
\* primary's failure reason and none of the logged fallback failures.
C6_TerminalErrorCitesPrimaryOnly ==
    [][\A t \in Threads :
        (Completes(t) /\ result'[t].kind = "raise")
        => /\ result'[t].error = "AIServiceError"
           /\ Contains(result'[t].message,
                  _create_service_for_provider(settings.ai_provider, settings,
                                               backend_ok, next_id).error)
           /\ \A i \in DOMAIN logged'[t] :
                  ~Contains(result'[t].message, logged'[t][i])]_vars

\* C6 witness: gemini had no key, the openai fallback failed too, and the
\* error raised cites gemini's missing key.
C6_Witness ==
    /\ pc[Caller] = "done"
    /\ result[Caller].kind = "raise"
    /\ logged[Caller] = <<"OpenAI service unavailable">>
    /\ Contains(result[Caller].message, "Gemini API key is required but not provided")

\* C7: a finished call that started after the latest clear_cache() did not
\* return the handle that clear discarded, and when it found the cache empty
\* it made at least one construction attempt.
C7_ClearThenCreateConstructsAfresh ==
    \A t \in Threads :
        (pc[t] = "done" /\ ~sawClear[t] /\ IsSet(lastCleared))
            => /\ result[t].value # lastCleared
               /\ ~IsSet(cachedAtCheck[t]) => Len(tried[t]) >= 1

\* C7 witness: after a clear the call constructed and returned a new handle
\* of the same provider as the discarded one.
C7_Witness ==
    /\ pc[Caller] = "done"
    /\ ~sawClear[Caller]
    /\ firstAfterClear[Caller]
    /\ IsSet(lastCleared)
    /\ result[Caller].kind = "return"
    /\ result[Caller].value.name = lastCleared.name
    /\ result[Caller].value.id # lastCleared.id
    /\ _service_cache = result[Caller].value

\* C8: under every interleaving the cache slot is empty or a fully
\* constructed handle, and every call that returned normally returned a fully
\* constructed handle.
C8_OnlyFullyConstructedHandles ==
    /\ _service_cache = None \/ IsHandle(_service_cache)
    /\ \A t \in Threads :
        (pc[t] = "done" /\ result[t].kind = "return") => IsHandle(result[t].value)

\* C9 as stated: the first call to start after a clear_cache() finds nothing
\* to return and attempts construction, also when another call was in flight
\* during the clear.
C9_NextCallAfterClearConstructs ==
    \A t \in Threads :
        firstAfterClear[t]
            => /\ ~IsSet(cachedAtCheck[t])
               /\ pc[t] = "done" => Len(tried[t]) >= 1

\* C9 amended: after a clear_cache() the slot is empty until a call stores a
\* handle, and a call that starts before any such store goes on to construct
\* the primary.
C9_ClearedUntilNextStore ==
    [][/\ ~dirty' => ~IsSet(_service_cache')
       /\ \A t \in Threads :
            (Begins(t) /\ ~dirty)
                => /\ pc'[t] = "create_primary"
                   /\ ~IsSet(cachedAtCheck'[t])]_vars

\* C9 witness: t2 was past its cache check, holding a constructed service,
\* when the cache was cleared; t1 started after the clear and is constructing.
C9_Witness ==
    /\ pc["t2"] = "cache_primary"
    /\ sawClear["t2"]
    /\ IsSet(lastCleared)
    /\ firstAfterClear["t1"]
    /\ pc["t1"] = "create_primary"
    /\ ~dirty

\* C10: when all callers have finished calls that found the cache empty and
\* returned normally, with no clear since they started, each holds a fully
\* constructed handle and the cache holds one of those handles.
C10_RacingFirstCallsSettle ==
    (\A t \in Threads :
        /\ pc[t] = "done"
        /\ ~IsSet(cachedAtCheck[t])
        /\ ~sawClear[t]
        /\ result[t].kind = "return")
    => /\ \A t \in Threads : IsHandle(result[t].value)
       /\ \E t \in Threads : _service_cache = result[t].value

\* C10 witness: both callers constructed the primary themselves and returned
\* different objects; the cache holds the one stored last.
C10_Witness ==
    /\ \A t \in Threads :
        /\ pc[t] = "done"
        /\ ~IsSet(cachedAtCheck[t])
        /\ ~sawClear[t]
        /\ result[t].kind = "return"
        /\ tried[t] = <<settings.ai_provider>>
    /\ result["t1"].value.id # result["t2"].value.id
    /\ _service_cache = result["t1"].value


\* ------------------------------------------------- create-enhancement route
\* POST /api/v1/enhancements (app/api/v1/endpoints/enhancement.py) and the
\* GeminiService it constructs (app/services/gemini_service.py).  Texts are
\* sequences of characters; error messages are sequences of words, so that the
\* handler's substring tests are computed on the message itself.

\* message.lower(), word by word
Lower(w) ==
    CASE w = "API" -> "api"
      [] w = "Gemini" -> "gemini"
      [] w = "Rate" -> "rate"
      [] w = "Invalid" -> "invalid"
      [] w = "GEMINI_API_KEY" -> "gemini_api_key"
      [] w = "YouTube" -> "youtube"
      [] w = "Transcript" -> "transcript"
      [] w = "Photo" -> "photo"
      [] w = "JSON" -> "json"
      [] w = "OpenAI" -> "openai"
      [] w = "ElevenLabs" -> "elevenlabs"
      [] w = "Unauthorized" -> "unauthorized"
      [] w = "Incorrect" -> "incorrect"
      [] w = "Unknown" -> "unknown"
      [] OTHER -> w

lower(message) == [i \in DOMAIN message |-> Lower(message[i])]

\* needle in message
In(needle, message) ==
    \E i \in 1..(Len(message) - Len(needle) + 1) :
        SubSeq(message, i, i + Len(needle) - 1) = needle

\* Characters that str.strip() removes.
Whitespace == {" ", "\t", "\n"}

\* not text or not text.strip()
IsBlank(text) == \A i \in DOMAIN text : text[i] \in Whitespace

valid_languages ==
    {"en", "es", "fr", "de", "it", "pt", "ja", "ko", "zh", "ru", "ar", "hi"}

\* What the AI backend does with one generate_content / chat completion
\* call: it answers with a JSON object, answers with text that holds no JSON,
\* or raises.  fields are the keys of the object, enhanced_transcript and
\* insights (the keys of the mapping) their values, insights_is_dict whether
\* the insights value is a JSON object.
JsonAnswer(fields, enhanced_transcript, insights, insights_is_dict) ==
    [kind |-> "json", fields |-> fields,
     enhanced_transcript |-> enhanced_transcript, insights |-> insights,
     insights_is_dict |-> insights_is_dict, text |-> <<>>]

NoJsonAnswer(kind, text) ==
    [kind |-> kind, fields |-> {}, enhanced_transcript |-> <<>>,
     insights |-> {}, insights_is_dict |-> FALSE, text |-> text]

RemoteOutcomes ==
    { JsonAnswer({"enhanced_transcript", "insights"}, <<"s">>, {"plot"}, TRUE),
      JsonAnswer({"enhanced_transcript", "insights"}, <<>>, {}, TRUE),
      JsonAnswer({"enhanced_transcript", "insights"}, <<"s">>, {}, FALSE),
      JsonAnswer({"insights"}, <<>>, {"plot"}, TRUE),
      NoJsonAnswer("text", <<>>),
      NoJsonAnswer("raise", <<"Rate", "limit", "exceeded">>),
      NoJsonAnswer("raise", <<"connection", "refused">>),
      NoJsonAnswer("raise", <<"API", "key", "not", "valid">>) }

\* GeminiService.__init__: the key comes from the process environment.
GeminiService(key, ok) ==
    IF ~Truthy(key)
    THEN [kind |-> "GeminiError",
          message |-> <<"GEMINI_API_KEY", "environment", "variable", "is", "required">>]
    ELSE IF ~ok
         THEN [kind |-> "Exception", message |-> <<"configure", "failed">>]
         ELSE [kind |-> "ok", message |-> <<>>]

\* The transcript length check with the comparison turned into "at least".
_validate_inputs_at_least(photo_base64, transcript, language) ==
    IF IsBlank(photo_base64) THEN <<"Photo", "data", "is", "required">>
    ELSE IF IsBlank(transcript) THEN <<"Transcript", "is", "required">>
    ELSE IF Len(transcript) >= 5000 THEN <<"Transcript", "too", "long">>
    ELSE IF language \notin valid_languages
         THEN <<"Invalid", "language", "code:", language>>
         ELSE <<>>

\* GeminiService._validate_inputs and OpenAIService._validate_inputs (the two
\* make the same four checks with the same messages): the message of the
\* error raised, or the empty message when the inputs pass.
_validate_inputs(photo_base64, transcript, language) ==
    IF IsBlank(photo_base64) THEN <<"Photo", "data", "is", "required">>
    ELSE IF IsBlank(transcript) THEN <<"Transcript", "is", "required">>
    ELSE IF Len(transcript) > 5000 THEN <<"Transcript", "too", "long">>
    ELSE IF language \notin valid_languages
         THEN <<"Invalid", "language", "code:", language>>
         ELSE <<>>

ValidationMessages ==
    { <<"Photo", "data", "is", "required">>, <<"Transcript", "is", "required">>,
      <<"Transcript", "too", "long">> }
    \cup { <<"Invalid", "language", "code:", l>> : l \in {"xx"} }

\* GeminiService._parse_response and OpenAIService._parse_response (the same
\* checks and messages): the message of the error raised, or the empty
\* message when the response is turned into a result.
_parse_response(response) ==
    IF "enhanced_transcript" \notin response.fields
    THEN <<"Invalid", "response", "format:", "missing", "enhanced_transcript", "field">>
    ELSE IF "insights" \notin response.fields
         THEN <<"Invalid", "response", "format:", "missing", "insights", "field">>
         ELSE IF ~response.insights_is_dict
              THEN <<"Invalid", "response", "format:", "insights", "must", "be",
                     "an", "object">>
              ELSE <<>>

\* The AIResponse built from a response that passed _parse_response.
AIResponse(response) ==
    [enhanced_transcript |-> response.enhanced_transcript,
     insights |-> response.insights]

NoAIResponse == [enhanced_transcript |-> <<>>, insights |-> {}]

\* The GeminiError, if any, that one remote call ends in; prefix is the text
\* the calling method puts before a backend exception.
RemoteError(outcome, prefix) ==
    CASE outcome.kind = "raise" -> prefix \o outcome.text
      [] outcome.kind = "text" ->
            <<"Invalid", "JSON", "response", "from", "Gemini:">>
      [] OTHER -> _parse_response(outcome)

\* What a call of one of the service methods comes to: whether the remote
\* call was made, the message of the error raised (empty when a result is
\* returned) and the result.
Enhanced(called, error, outcome) ==
    [called |-> called, error |-> error,
     result |-> IF error = <<>> THEN AIResponse(outcome) ELSE NoAIResponse]

\* GeminiService.enhance_story_with_photo
enhance_story_with_photo(request, outcome) ==
    LET invalid == _validate_inputs(request.photo_base64, request.transcript,
                                    request.language)
    IN  IF invalid # <<>>
        THEN Enhanced(FALSE, invalid, outcome)
        ELSE Enhanced(TRUE,
                      RemoteError(outcome, <<"Gemini", "API", "call", "failed:">>),
                      outcome)

\* GeminiService.enhance_youtube_insight
enhance_youtube_insight(request, outcome) ==
    IF request.language \notin valid_languages
    THEN Enhanced(FALSE, <<"Invalid", "language", "code:", request.language>>,
                  outcome)
    ELSE LET err == RemoteError(outcome, <<"YouTube", "enhancement", "failed:">>)
         IN  Enhanced(TRUE,
                      IF outcome.kind = "json" /\ err # <<>>
                      THEN <<"YouTube", "enhancement", "failed:">> \o err
                      ELSE err,
                      outcome)

\* OpenAIService._call_openai_api followed by _parse_response: the message
\* of the OpenAIError, if any, that one chat completion ends in.
OpenAIRemoteError(outcome) ==
    CASE outcome.kind = "raise" ->
            <<"OpenAI", "API", "call", "failed:">> \o outcome.text
      [] outcome.kind = "text" ->
            <<"OpenAI", "API", "call", "failed:", "Could", "not", "extract",
              "valid", "JSON", "from", "response:">>
      [] OTHER -> _parse_response(outcome)

\* OpenAIService.enhance_story_with_photo
openai_enhance_story_with_photo(request, outcome) ==
    LET invalid == _validate_inputs(request.photo_base64, request.transcript,
                                    request.language)
    IN  IF invalid # <<>>
        THEN Enhanced(FALSE, invalid, outcome)
        ELSE Enhanced(TRUE, OpenAIRemoteError(outcome), outcome)

RequestKinds == {"photo", "youtube", "legacy"}
Photos == {<<>>, <<"/", "9", "j">>}
\* The request schema admits transcripts of 1 to 5000 characters and any
\* two-letter lower-case language code.
Transcripts == {<<" ">>, <<"a", " ", "b">>}
Languages == {"en", "xx"}

Requests ==
    [kind : RequestKinds, photo_base64 : Photos, transcript : Transcripts,
     language : Languages]

RouteIdle == route.pc \in {"none", "done"}

\* The resolved user ids: get_user_id_or_anonymous gives the authenticated
\* user's id, or "anonymous_user" without valid credentials.
Users == {"anonymous_user", "user_1"}

\* Enhancement ids issued in one behaviour (each is a fresh uuid).
MaxEnhancements == 2

\* The row create_enhancement adds; audio_status defaults to not_generated.
Enhancement(enhancement_id, user_id) ==
    [enhancement_id |-> enhancement_id, user_id |-> user_id,
     audio_status |-> "not_generated"]

\* A query that selects by the id alone.
FindEnhancement_any_user(rows, enhancement_id, user_id) ==
    {row \in rows : row.enhancement_id = enhancement_id}

\* db.query(Enhancement).filter(Enhancement.enhancement_id == enhancement_id,
\*                             Enhancement.user_id == user_id)
FindEnhancement(rows, enhancement_id, user_id) ==
    {row \in rows : /\ row.enhancement_id = enhancement_id
                    /\ row.user_id = user_id}

\* A request of user_id arrives at create_enhancement; line 44 draws the
\* enhancement id.
create_enhancement(r, user_id) ==
    /\ RouteIdle
    /\ store.issued < MaxEnhancements
    /\ route' = [NoRequest EXCEPT !.pc = "received", !.request = r,
                                  !.GEMINI_API_KEY = route.GEMINI_API_KEY,
                                  !.user_id = user_id,
                                  !.enhancement_id = store.issued + 1]
    /\ store' = [store EXCEPT !.issued = @ + 1]

\* enhancement.py line 47: gemini_service = GeminiService()
ce_construct ==
    /\ route.pc = "received"
    /\ LET made == GeminiService(route.GEMINI_API_KEY, backend_ok["gemini"])
       IN  route' =
             CASE made.kind = "ok" ->
                    [route EXCEPT !.pc = "constructed", !.constructed = <<"gemini">>]
               [] made.kind = "GeminiError" ->
                    [route EXCEPT !.pc = "GeminiError", !.error = made.message]
               [] OTHER ->
                    [route EXCEPT !.pc = "Exception", !.error = made.message]

\* enhancement.py lines 50-87: the enhance call for the request's type.
ce_enhance ==
    /\ route.pc = "constructed"
    /\ \E outcome \in RemoteOutcomes :
         LET r == route.request
             done == IF r.kind = "youtube"
                     THEN enhance_youtube_insight(r, outcome)
                     ELSE enhance_story_with_photo(r, outcome)
             calls == IF done.called
                      THEN Append(route.remote_calls, "gemini")
                      ELSE route.remote_calls
         IN  route' =
               IF done.error = <<>>
               THEN [route EXCEPT !.pc = "enhanced", !.remote_calls = calls,
                                  !.remote = "ok"]
               ELSE [route EXCEPT !.pc = "GeminiError", !.remote_calls = calls,
                                  !.remote = IF done.called THEN "failed"
                                             ELSE "none",
                                  !.error = done.error]

\* enhancement.py lines 89-118: save (a failed save is rolled back and the
\* request continues) and answer 200 with the enhancement id.
ce_save_and_respond ==
    /\ route.pc = "enhanced"
    /\ \E db_ok \in BOOLEAN :
         /\ route' = [route EXCEPT !.pc = "done", !.saved = db_ok, !.status = 200]
         /\ store' =
              IF db_ok
              THEN [store EXCEPT !.rows =
                      @ \cup {Enhancement(route.enhancement_id, route.user_id)}]
              ELSE store

\* enhancement.py lines 120-128: the answer to a GeminiError
GeminiErrorResponse(error) ==
    IF In(<<"API", "key">>, error)
    THEN [status |-> 503, detail |-> <<"AI", "service", "temporarily", "unavailable">>]
    ELSE IF In(<<"rate", "limit">>, lower(error))
    THEN [status |-> 429, detail |-> <<"Too", "many", "requests,", "please", "try", "again", "later">>]
    ELSE [status |-> 503, detail |-> <<"AI", "service", "temporarily", "unavailable">>]

ce_handle_gemini_error_retrying ==
    /\ route.pc = "GeminiError"
    /\ route' =
         IF route.remote = "failed" /\ Truthy(settings.openai_api_key)
         THEN [route EXCEPT !.pc = "done", !.status = 200,
                            !.constructed = Append(@, "openai"),
                            !.remote_calls = Append(@, "openai")]
         ELSE [route EXCEPT !.pc = "done",
                            !.status = GeminiErrorResponse(route.error).status,
                            !.detail = GeminiErrorResponse(route.error).detail]

\* enhancement.py lines 120-128: except GeminiError
ce_handle_gemini_error ==
    /\ route.pc = "GeminiError"
    /\ route' = [route EXCEPT !.pc = "done",
                              !.status = GeminiErrorResponse(route.error).status,
                              !.detail = GeminiErrorResponse(route.error).detail]

\* enhancement.py lines 130-135: except Exception
ce_handle_exception ==
    /\ route.pc = "Exception"
    /\ route' = [route EXCEPT !.pc = "done", !.status = 500,
                              !.detail = route.error]

\* The route runs in a process whose environment and settings are fixed; the
\* module-level factory (ai_service_factory.py line 217) has fallback enabled.
RouteInit ==
    /\ FactoryInit
    /\ enable_fallback = TRUE
    /\ probe = NoProbe
    /\ probed = {}
    /\ route \in {[NoRequest EXCEPT !.GEMINI_API_KEY = k] : k \in KeyValues}
    /\ tts = NoTTS
    /\ invocation = NoCall
    /\ store = EmptyStore
    /\ prompts = NoPrompts

RouteNext ==
    \/ (\E r \in Requests : create_enhancement(r, "anonymous_user"))
          /\ UNCHANGED <<factory, diag, tts, invocation, prompts>>
    \/ ce_construct /\ UNCHANGED <<factory, diag, tts, invocation, store, prompts>>
    \/ ce_enhance /\ UNCHANGED <<factory, diag, tts, invocation, store, prompts>>
    \/ ce_save_and_respond /\ UNCHANGED <<factory, diag, tts, invocation, prompts>>
    \/ ce_handle_gemini_error /\ UNCHANGED <<factory, diag, tts, invocation, store, prompts>>
    \/ ce_handle_exception /\ UNCHANGED <<factory, diag, tts, invocation, store, prompts>>

RouteSpec == RouteInit /\ [][RouteNext]_vars


\* The request has been answered.
Answered == route.pc = "done" /\ route.status # 0

\* C11 (as stated): a request whose Gemini remote call failed is retried with
\* the next available provider, so with an OpenAI credential present it is
\* answered 200 after a call to OpenAI.
C11_InvocationFailureRetried ==
    (Answered /\ route.remote = "failed" /\ Truthy(settings.openai_api_key))
        => /\ route.status = 200
           /\ route.remote_calls = <<"gemini", "openai">>

\* C11: a request whose Gemini remote call failed is answered with an error
\* status (429 when the failure names a rate limit, otherwise 503) after that
\* single remote call: no other provider is constructed or called, whatever
\* credentials are present, and nothing is saved.
C11_InvocationFailureReported ==
    (Answered /\ route.remote = "failed")
        => /\ route.status \in {429, 503}
           /\ route.status = 429 <=> In(<<"rate", "limit">>, lower(route.error))
                                     /\ ~In(<<"API", "key">>, route.error)
           /\ route.remote_calls = <<"gemini">>
           /\ route.constructed = <<"gemini">>
           /\ ~route.saved

\* A remote failure was answered while an OpenAI credential was present.
C11_Witness ==
    /\ Answered
    /\ route.remote = "failed"
    /\ Truthy(settings.openai_api_key)
    /\ route.status = 503
    /\ route.remote_calls = <<"gemini">>

\* C12 (as stated): when Gemini cannot be constructed from the environment and
\* an OpenAI credential is configured, the request is served by OpenAI.
C12_RouteServedByFallback ==
    (Answered /\ ~Truthy(route.GEMINI_API_KEY) /\ Truthy(settings.openai_api_key)
        /\ backend_ok["openai"]
        /\ _validate_inputs(route.request.photo_base64, route.request.transcript,
                            route.request.language) = <<>>)
        => route.status = 200


\* C13: a clear_cache() step empties the slot and changes nothing else of the
\* factory: every caller keeps the result it was given, a handle returned
\* before the clear is the same constructed handle after it, and the fallback
\* flag and the settings are as before.
C13_ClearCacheOnlyEmptiesSlot ==
    [][clear_cache =>
         /\ _service_cache' = None
         /\ result' = result
         /\ \A t \in Threads :
                result[t].kind = "return"
                    => IsHandle(result'[t].value) /\ result'[t].value = result[t].value
         /\ enable_fallback' = enable_fallback
         /\ settings' = settings
         /\ next_id' = next_id]_vars

\* C13 witness: the cache was cleared after the caller got its handle; the
\* slot is empty, the caller holds the discarded handle, still constructed,
\* and fallback is still enabled.
C13_Witness ==
    /\ pc[Caller] = "done"
    /\ sawClear[Caller]
    /\ ~IsSet(_service_cache)
    /\ result[Caller].kind = "return"
    /\ IsHandle(result[Caller].value)
    /\ result[Caller].value = lastCleared
    /\ enable_fallback


\* ------------------------------------------------------ factory diagnostics
\* get_available_providers(), get_provider_capabilities() and health_check()
\* of AIServiceFactory, called between create_service() calls.

vision_models == {"gpt-4-vision-preview", "gpt-4-turbo"}

\* AIServiceFactory.get_provider_capabilities, for a known provider
get_provider_capabilities(provider, s) ==
    IF provider = "gemini"
    THEN [name |-> "gemini", supports_vision |-> TRUE, model |-> gemini_model]
    ELSE [name |-> "openai", supports_vision |-> s.openai_model \in vision_models,
          model |-> s.openai_model]

NoCapabilities == [name |-> "None", supports_vision |-> FALSE, model |-> "None"]

\* The loop of health_check over the available providers: the status entries
\* in order, the identities of the services it built, and the next identity.
RECURSIVE HealthLoop(_, _, _, _)
HealthLoop(providers, s, ok, id) ==
    IF providers = <<>>
    THEN [status |-> <<>>, built |-> {}, next |-> id]
    ELSE LET provider == Head(providers)
             made == _create_service_for_provider(provider, s, ok, id)
             rest == HealthLoop(Tail(providers), s, ok,
                                IF made.ok THEN id + 1 ELSE id)
             entry == IF made.ok
                      THEN [provider |-> provider, status |-> "healthy",
                            capabilities |-> get_provider_capabilities(provider, s),
                            error |-> "None"]
                      ELSE [provider |-> provider, status |-> "unhealthy",
                            capabilities |-> NoCapabilities,
                            error |-> made.error]
         IN  [status |-> <<entry>> \o rest.status,
              built |-> (IF made.ok THEN {id} ELSE {}) \cup rest.built,
              next |-> rest.next]

\* Variant of health_check that keeps the last service it built in the cache.
health_check_caching ==
    LET available_providers == get_available_providers(settings)
        loop == HealthLoop(available_providers, settings, backend_ok, next_id)
        last == CHOOSE i \in loop.built : \A j \in loop.built : j <= i
        kept == CHOOSE k \in DOMAIN loop.status :
                    /\ loop.status[k].status = "healthy"
                    /\ \A j \in DOMAIN loop.status :
                          loop.status[j].status = "healthy" => j <= k
    IN  /\ next_id + Len(available_providers) <= MaxHandles + 1
        /\ probe' = [probe EXCEPT !.op = "health_check", !.status = loop.status]
        /\ probed' = probed \cup loop.built
        /\ next_id' = loop.next
        /\ _service_cache' =
             IF loop.built = {} THEN _service_cache
             ELSE [id |-> last, name |-> loop.status[kept].provider,
                   model |-> loop.status[kept].capabilities.model]
        /\ UNCHANGED <<env, pc, locals, result, tried, logged, ghost>>

\* AIServiceFactory.health_check
health_check ==
    LET available_providers == get_available_providers(settings)
        loop == HealthLoop(available_providers, settings, backend_ok, next_id)
    IN  /\ next_id + Len(available_providers) <= MaxHandles + 1
        /\ probe' = [probe EXCEPT !.op = "health_check", !.status = loop.status]
        /\ probed' = probed \cup loop.built
        /\ next_id' = loop.next
        /\ UNCHANGED <<env, _service_cache, pc, locals, result, tried, logged, ghost>>

\* Variant of the call that answers from what an earlier call returned.
query_available_providers_memoized ==
    /\ probe' = [probe EXCEPT
                   !.op = "get_available_providers",
                   !.earlier = probe.providers,
                   !.providers = IF probe.op = "none"
                                 THEN get_available_providers(settings)
                                 ELSE probe.providers]
    /\ UNCHANGED <<factory, probed>>

\* A caller calls AIServiceFactory.get_available_providers and keeps the list.
query_available_providers ==
    /\ probe' = [probe EXCEPT
                   !.op = "get_available_providers",
                   !.earlier = probe.providers,
                   !.providers = get_available_providers(settings)]
    /\ UNCHANGED <<factory, probed>>

\* The factory as the application creates it (fallback enabled, default
\* OpenAI model), probed between create_service() and clear_cache() calls
\* under a configuration that stays as it is.
HealthInit ==
    /\ Init
    /\ enable_fallback = TRUE
    /\ settings.openai_model = "gpt-4-vision-preview"

HealthNext ==
    \/ Quiet /\ cs_check_cache(Caller) /\ UNCHANGED <<diag, beyond>>
    \/ create_service(Caller) /\ UNCHANGED <<diag, beyond>>
    \/ Quiet /\ clear_cache /\ UNCHANGED <<diag, beyond>>
    \/ Quiet /\ health_check /\ UNCHANGED beyond

HealthSpec == HealthInit /\ [][HealthNext]_vars

\* The same factory with backends that start, asked for its available
\* providers while credentials and the primary change.
ProvidersInit ==
    /\ Init
    /\ enable_fallback = TRUE
    /\ settings.openai_model = "gpt-4-vision-preview"
    /\ backend_ok = [p \in Backends |-> TRUE]

ProvidersNext ==
    \/ Quiet /\ cs_check_cache(Caller) /\ UNCHANGED <<diag, beyond>>
    \/ create_service(Caller) /\ UNCHANGED <<diag, beyond>>
    \/ Quiet /\ clear_cache /\ UNCHANGED <<diag, beyond>>
    \/ Quiet /\ (\E v \in KeyValues : set_gemini_api_key(v)) /\ UNCHANGED <<diag, beyond>>
    \/ Quiet /\ (\E v \in KeyValues : set_openai_api_key(v)) /\ UNCHANGED <<diag, beyond>>
    \/ Quiet /\ (\E q \in ProviderNames : set_ai_provider(q)) /\ UNCHANGED <<diag, beyond>>
    \/ Quiet /\ query_available_providers /\ UNCHANGED beyond

ProvidersSpec == ProvidersInit /\ [][ProvidersNext]_vars


\* C14: a health_check() step leaves the cache slot exactly as it was, and
\* after every step neither the cached handle nor any handle a create_service()
\* call returned is a service object that health_check() built.
C14_HealthCheckLeavesCache ==
    [][/\ health_check => _service_cache' = _service_cache
       /\ IsSet(_service_cache') => _service_cache'.id \notin probed'
       /\ \A t \in Threads :
              result'[t].kind = "return" => result'[t].value.id \notin probed']_vars

\* C14 witness: a health check built one service and found the other provider
\* unhealthy, and a later create_service() call constructed and returned a
\* newer handle, which is the one cached.
C14_Witness ==
    /\ probe.op = "health_check"
    /\ \E i \in DOMAIN probe.status : probe.status[i].status = "healthy"
    /\ \E i \in DOMAIN probe.status : probe.status[i].status = "unhealthy"
    /\ pc[Caller] = "done"
    /\ result[Caller].kind = "return"
    /\ \E i \in probed : result[Caller].value.id > i
    /\ _service_cache = result[Caller].value

\* C15: every get_available_providers() call returns the providers whose
\* credential is present at that moment, gemini before openai, whatever the
\* cache, the primary and earlier calls were, and changes nothing of the factory.
C15_AvailableProvidersRecomputed ==
    [][query_available_providers =>
         /\ probe'.providers =
                SelectSeq(DeclaredOrder, LAMBDA p : Truthy(KeyOf(settings, p)))
         /\ factory' = factory
         /\ probed' = probed]_vars

\* C15 witness: with a gemini handle cached and openai configured as primary,
\* a call made after the OpenAI credential was added lists both providers where
\* the call before it listed gemini alone.
C15_Witness ==
    /\ probe.op = "get_available_providers"
    /\ probe.earlier = <<"gemini">>
    /\ probe.providers = <<"gemini", "openai">>
    /\ IsSet(_service_cache)
    /\ _service_cache.name = "gemini"
    /\ settings.ai_provider = "openai"


\* ------------------------------------------------------------- TTS service
\* TTSService (app/services/tts_service.py): client initialisation and
\* generate_audio with its three generators.  Audio is a sequence of bytes and
\* the payload returned is its base64 text.

max_length == 4096

B64Alphabet ==
    << "A", "B", "C", "D", "E", "F", "G", "H", "I", "J", "K", "L", "M",
       "N", "O", "P", "Q", "R", "S", "T", "U", "V", "W", "X", "Y", "Z",
       "a", "b", "c", "d", "e", "f", "g", "h", "i", "j", "k", "l", "m",
       "n", "o", "p", "q", "r", "s", "t", "u", "v", "w", "x", "y", "z",
       "0", "1", "2", "3", "4", "5", "6", "7", "8", "9", "+", "/" >>

B64(n) == B64Alphabet[n + 1]

\* base64.b64encode(data).decode('utf-8')
RECURSIVE b64encode(_)
b64encode(data) ==
    IF Len(data) = 0 THEN ""
    ELSE IF Len(data) = 1
    THEN B64(data[1] \div 4) \o B64((data[1] % 4) * 16) \o "=="
    ELSE IF Len(data) = 2
    THEN B64(data[1] \div 4) \o B64((data[1] % 4) * 16 + data[2] \div 16)
         \o B64((data[2] % 16) * 4) \o "="
    ELSE B64(data[1] \div 4) \o B64((data[1] % 4) * 16 + data[2] \div 16)
         \o B64((data[2] % 16) * 4 + data[3] \div 64) \o B64(data[3] % 64)
         \o b64encode(SubSeq(data, 4, Len(data)))

\* The silent MP3 frame of _generate_mock_audio: a 4-byte header and 32 zeros.
mock_mp3_data == <<255, 251, 144, 0>> \o [i \in 1..32 |-> 0]

\* TTSService._initialize_clients, for one provider: the client exists when
\* the library is importable, the key is set and the constructor succeeds.
_initialize_clients(available, key, starts) == available /\ Truthy(key) /\ starts

valid_voices == {"alloy", "echo", "fable", "onyx", "nova", "shimmer"}

\* voice or settings.tts_voice or "alloy", then the validity check
OpenAIVoice(voice, tts_voice) ==
    LET voice_name == IF voice # "None" /\ voice # "" THEN voice
                      ELSE IF tts_voice # "None" /\ tts_voice # "" THEN tts_voice
                      ELSE "alloy"
    IN  IF voice_name \notin valid_voices THEN "alloy" ELSE voice_name

\* TTSService._get_elevenlabs_voice
_get_elevenlabs_voice(language) ==
    LET code == Lower(language)
    IN  CASE code = "en" -> "21m00Tcm4TlvDq8ikWAM"
          [] code = "es" -> "VR6AewLTigWG4xSOukaG"
          [] code = "fr" -> "XB0fDUnXU5powFXDhCwa"
          [] code = "de" -> "jBpfuIE2acCO8z3wKNLl"
          [] code = "it" -> "oWAxZDx7w5VEj9dCyTzz"
          [] code = "pt" -> "pMsXgVXv3BLzUgSXRplE"
          [] OTHER -> "21m00Tcm4TlvDq8ikWAM"

\* voice or self._get_elevenlabs_voice(language)
ElevenLabsVoice(voice, language) ==
    IF voice # "None" /\ voice # "" THEN voice ELSE _get_elevenlabs_voice(language)

\* The message of the TTSError raised for a failed client call.
TTSFailure(provider, text) ==
    IF In(<<"rate", "limit">>, lower(text))
    THEN <<provider, "TTS", "rate", "limit", "exceeded,", "please", "try", "again", "later">>
    ELSE IF In(<<"quota">>, lower(text))
    THEN <<provider, "TTS", "quota", "exceeded">>
    ELSE IF \/ In(<<"api", "key">>, lower(text))
            \/ provider = "ElevenLabs" /\ In(<<"unauthorized">>, lower(text))
    THEN <<provider, "TTS", "authentication", "failed">>
    ELSE <<provider, "TTS", "generation", "failed:">> \o text

\* What a provider's speech endpoint does with one call.
TTSRemoteOutcomes ==
    { [kind |-> "audio", content |-> <<73, 68, 51, 4>>, text |-> <<>>],
      [kind |-> "raise", content |-> <<>>, text |-> <<"Rate", "limit", "reached">>],
      [kind |-> "raise", content |-> <<>>, text |-> <<"insufficient", "quota">>],
      [kind |-> "raise", content |-> <<>>, text |-> <<"Incorrect", "API", "key">>],
      [kind |-> "raise", content |-> <<>>, text |-> <<"Unauthorized">>],
      [kind |-> "raise", content |-> <<>>, text |-> <<"Unknown", "error">>] }


\* Variant of the text check that rejects the empty text only.
text_missing_empty_only(text) == text = <<>>

\* generate_audio lines 84-85: `not text or not text.strip()`
text_missing(text) == IsBlank(text)

\* Variant of the length limit that cuts without appending the marker.
limit_text_without_marker(text) ==
    IF Len(text) > max_length THEN SubSeq(text, 1, max_length) ELSE text

\* generate_audio lines 88-91: text[:max_length] + "..."
limit_text(text) ==
    IF Len(text) > max_length
    THEN SubSeq(text, 1, max_length) \o <<".", ".", ".">>
    ELSE text

\* Variant of the selection that uses whichever client exists.
select_generator_any_client(tts_provider, openai_client, elevenlabs_client) ==
    IF openai_client THEN "openai"
    ELSE IF elevenlabs_client THEN "elevenlabs"
    ELSE "mock"

\* generate_audio lines 94-103: the generator chosen for the configured name.
select_generator(tts_provider, openai_client, elevenlabs_client) ==
    LET provider == Lower(tts_provider)
    IN  IF provider = "openai" /\ openai_client THEN "openai"
        ELSE IF provider = "elevenlabs" /\ elevenlabs_client THEN "elevenlabs"
        ELSE "mock"

\* TTSService._generate_mock_audio
_generate_mock_audio(text, language) ==
    [client_calls |-> <<>>, outcome |-> "return",
     audio |-> b64encode(mock_mp3_data), format |-> "mp3", error |-> <<>>]

\* Variant of _generate_openai_audio that answers a failed call with the mock.
_generate_openai_audio_mock_on_failure(text, language, voice, tts_voice, remote) ==
    LET call == [client |-> "openai", model |-> "tts-1",
                 voice |-> OpenAIVoice(voice, tts_voice), input |-> text]
    IN  IF remote.kind = "audio"
        THEN [client_calls |-> <<call>>, outcome |-> "return",
              audio |-> b64encode(remote.content), format |-> "mp3",
              error |-> <<>>]
        ELSE [client_calls |-> <<call>>, outcome |-> "return",
              audio |-> b64encode(mock_mp3_data), format |-> "mp3",
              error |-> <<>>]

\* TTSService._generate_openai_audio
_generate_openai_audio(text, language, voice, tts_voice, remote) ==
    LET call == [client |-> "openai", model |-> "tts-1",
                 voice |-> OpenAIVoice(voice, tts_voice), input |-> text]
    IN  IF remote.kind = "audio"
        THEN [client_calls |-> <<call>>, outcome |-> "return",
              audio |-> b64encode(remote.content), format |-> "mp3",
              error |-> <<>>]
        ELSE [client_calls |-> <<call>>, outcome |-> "raise",
              audio |-> "", format |-> "None",
              error |-> TTSFailure("OpenAI", remote.text)]

\* TTSService._generate_elevenlabs_audio
_generate_elevenlabs_audio(text, language, voice, remote) ==
    LET call == [client |-> "elevenlabs", model |-> "eleven_monolingual_v1",
                 voice |-> ElevenLabsVoice(voice, language), input |-> text]
    IN  IF remote.kind = "audio"
        THEN [client_calls |-> <<call>>, outcome |-> "return",
              audio |-> b64encode(remote.content), format |-> "mp3",
              error |-> <<>>]
        ELSE [client_calls |-> <<call>>, outcome |-> "raise",
              audio |-> "", format |-> "None",
              error |-> TTSFailure("ElevenLabs", remote.text)]

\* TTSService.generate_audio on the service svc: the state of the service
\* record after the call.
generate_audio(svc, text, language, voice, remote) ==
    LET called == [svc EXCEPT !.pc = "done", !.text = text,
                              !.language = language, !.voice = voice,
                              !.calls = svc.calls + 1,
                              !.handed_before = svc.handed]
    IN  IF text_missing(text)
        THEN [called EXCEPT !.generator = "none", !.handed = <<>>,
                            !.client_calls = <<>>, !.remote = "none",
                            !.outcome = "raise",
                            !.audio = "", !.format = "None",
                            !.error = <<"Text", "content", "is", "required">>]
        ELSE LET limited == limit_text(text)
                 generator == select_generator(svc.tts_provider, svc.openai_client,
                                               svc.elevenlabs_client)
                 made == CASE generator = "openai" ->
                                _generate_openai_audio(limited, language, voice,
                                                       svc.tts_voice, remote)
                           [] generator = "elevenlabs" ->
                                _generate_elevenlabs_audio(limited, language, voice,
                                                           remote)
                           [] OTHER -> _generate_mock_audio(limited, language)
             IN  [called EXCEPT !.generator = generator, !.handed = limited,
                                !.client_calls = made.client_calls,
                                !.remote = IF made.client_calls = <<>> THEN "none"
                                           ELSE remote.kind,
                                !.outcome = made.outcome, !.audio = made.audio,
                                !.format = made.format, !.error = made.error]

MaxOver == 2

\* A text of n characters whose characters differ from place to place.
TextOfLength(n) ==
    [i \in 1..n |-> IF i % 3 = 1 THEN "a" ELSE IF i % 3 = 2 THEN "b" ELSE "c"]

Texts ==
    {<<>>, <<" ", "\t", " ">>, <<" ", "h", "i">>, TextOfLength(1)}
        \cup {TextOfLength(n) : n \in (max_length - 1)..(max_length + MaxOver)}

TTSLanguages == {"en", "es"}
Voices == {"None", "nova", "invalid_voice"}
TTSProviders == {"openai", "OpenAI", "elevenlabs", "mock"}
TTSVoices == {"alloy", "None"}

\* A caller calls generate_audio on a fresh service.
tts_generate_audio(text, language, voice) ==
    /\ tts.pc = "ready"
    /\ \E remote \in TTSRemoteOutcomes :
         tts' = generate_audio(tts, text, language, voice, remote)

\* The caller repeats the call with the same arguments.
tts_generate_audio_again ==
    /\ tts.pc = "done"
    /\ tts.calls = 1
    /\ \E remote \in TTSRemoteOutcomes :
         tts' = generate_audio(tts, tts.text, tts.language, tts.voice, remote)

\* TTSService.__init__ under each configuration.
TTSInit ==
    /\ FactoryInit
    /\ settings.ai_provider = "gemini"
    /\ settings.gemini_api_key = NoKey
    /\ settings.openai_model = "gpt-4-vision-preview"
    /\ backend_ok = [p \in Backends |-> TRUE]
    /\ enable_fallback = TRUE
    /\ probe = NoProbe
    /\ probed = {}
    /\ route = NoRequest
    /\ invocation = NoCall
    /\ store = EmptyStore
    /\ prompts = NoPrompts
    /\ \E OPENAI_AVAILABLE, ELEVENLABS_AVAILABLE, starts \in BOOLEAN :
       \E elevenlabs_api_key \in KeyValues :
       \E provider \in TTSProviders, tts_voice \in TTSVoices :
         tts = [NoTTS EXCEPT
                  !.pc = "ready",
                  !.openai_client =
                      _initialize_clients(OPENAI_AVAILABLE, settings.openai_api_key,
                                          starts),
                  !.elevenlabs_client =
                      _initialize_clients(ELEVENLABS_AVAILABLE, elevenlabs_api_key,
                                          starts),
                  !.tts_provider = provider,
                  !.tts_voice = tts_voice]

TTSNext ==
    \/ /\ \E text \in Texts, language \in TTSLanguages, voice \in Voices :
            tts_generate_audio(text, language, voice)
       /\ UNCHANGED <<factory, diag, route, invocation, store, prompts>>
    \/ tts_generate_audio_again /\ UNCHANGED <<factory, diag, route, invocation, store, prompts>>

TTSSpec == TTSInit /\ [][TTSNext]_vars


\* A generate_audio call has finished / has finished for a text with content.
Spoke == tts.pc = "done" /\ ~IsBlank(tts.text)

\* The voice ids the ElevenLabs voice map knows.
ElevenLabsVoiceIds ==
    {_get_elevenlabs_voice(l) : l \in {"en", "es", "fr", "de", "it", "pt"}}

\* C16 (as stated): for every text with content and every configuration
\* generate_audio returns an audio payload, also when the remote call failed.
C16_AudioAlwaysReturned ==
    Spoke => tts.outcome = "return" /\ tts.audio # ""

\* C16: for a text with content generate_audio returns a non-empty mp3 payload
\* exactly when no remote call failed: the mock generator and a successful
\* client call return audio, and a failed client call raises the provider's
\* TTSError with no audio and no second attempt.
C16_AudioUnlessRemoteFails ==
    Spoke =>
        /\ tts.outcome = "raise" <=> tts.remote = "raise"
        /\ tts.outcome = "return" => tts.audio # "" /\ tts.format = "mp3"
        /\ tts.outcome = "raise"
              => /\ tts.audio = ""
                 /\ Len(tts.client_calls) = 1
                 /\ tts.error[2] = "TTS"
        /\ tts.generator = "mock" => tts.outcome = "return"

\* C16 witness: the OpenAI client was available, its call hit a rate limit,
\* and the call raised while an ElevenLabs client existed too.
C16_Witness ==
    /\ Spoke
    /\ tts.generator = "openai"
    /\ tts.elevenlabs_client
    /\ tts.remote = "raise"
    /\ tts.outcome = "raise"
    /\ tts.error = <<"OpenAI", "TTS", "rate", "limit", "exceeded,", "please",
                     "try", "again", "later">>

\* The fixed payload of the mock generator with format mp3, no client called.
MockAnswer ==
    /\ tts.outcome = "return"
    /\ tts.audio = "//uQAAAAAAAAAAAAAAAAAAAAAAAAAAAAAAAAAAAAAAAAAAAA"
    /\ tts.format = "mp3"
    /\ tts.client_calls = <<>>

\* C17: for a text with content, whenever the configured provider name (read
\* in lower case, as generate_audio reads it) is neither openai nor elevenlabs,
\* or the named provider's client is missing, the call returns the mock
\* generator's fixed payload with format mp3 and calls no client, whether or
\* not the other provider's client exists.
C17_MockWhenNotConfigured ==
    (Spoke /\ \/ Lower(tts.tts_provider) \notin {"openai", "elevenlabs"}
              \/ Lower(tts.tts_provider) = "openai" /\ ~tts.openai_client
              \/ Lower(tts.tts_provider) = "elevenlabs" /\ ~tts.elevenlabs_client)
        => MockAnswer /\ tts.generator = "mock"

\* C17 witness: openai is configured, its client is missing, the ElevenLabs
\* client exists, and the mock payload was returned.
C17_Witness ==
    /\ Spoke
    /\ tts.tts_provider = "openai"
    /\ ~tts.openai_client
    /\ tts.elevenlabs_client
    /\ MockAnswer

\* C18: the text handed to the generator is the caller's text when that has at
\* most 4096 characters, and otherwise its first 4096 characters followed by
\* '...', 4099 characters in all; a client call gets exactly that text, and a
\* repeated call hands over the same text as the first.
C18_TextLimitedTo4096PlusMarker ==
    Spoke =>
        /\ Len(tts.text) <= 4096 => tts.handed = tts.text
        /\ Len(tts.text) > 4096
              => /\ Len(tts.handed) = 4099
                 /\ SubSeq(tts.handed, 1, 4096) = SubSeq(tts.text, 1, 4096)
                 /\ SubSeq(tts.handed, 4097, 4099) = <<".", ".", ".">>
        /\ \A i \in DOMAIN tts.client_calls : tts.client_calls[i].input = tts.handed
        /\ tts.calls = 2 => tts.handed = tts.handed_before

\* C18 witness: a text of 4098 characters was sent twice to the OpenAI client
\* as 4099 characters.
C18_Witness ==
    /\ Spoke
    /\ tts.calls = 2
    /\ Len(tts.text) = 4098
    /\ tts.generator = "openai"
    /\ Len(tts.client_calls[1].input) = 4099

\* C19: a call with empty or whitespace-only text raises 'Text content is
\* required' having chosen no generator, called no client and produced no
\* audio, under every configuration.
C19_BlankTextRejectedFirst ==
    (tts.pc = "done" /\ IsBlank(tts.text))
        => /\ tts.outcome = "raise"
           /\ tts.error = <<"Text", "content", "is", "required">>
           /\ tts.generator = "none"
           /\ tts.client_calls = <<>>
           /\ tts.audio = ""

\* C19 witness: whitespace-only text was rejected although openai was
\* configured and its client available.
C19_Witness ==
    /\ tts.pc = "done"
    /\ tts.text = <<" ", "\t", " ">>
    /\ tts.tts_provider = "openai"
    /\ tts.openai_client
    /\ tts.outcome = "raise"
    /\ tts.error = <<"Text", "content", "is", "required">>

\* C20 (as stated): a caller's voice name that the provider does not know is
\* replaced by the provider's default voice in the client call: 'alloy' for
\* OpenAI, the language's voice id for ElevenLabs.
C20_UnknownVoiceReplacedByDefault ==
    \A i \in DOMAIN tts.client_calls :
        LET call == tts.client_calls[i]
        IN  /\ (call.client = "openai" /\ tts.voice # "None"
                   /\ tts.voice \notin valid_voices)
                => call.voice = "alloy"
            /\ (call.client = "elevenlabs" /\ tts.voice # "None"
                   /\ tts.voice \notin ElevenLabsVoiceIds)
                => call.voice = _get_elevenlabs_voice(tts.language)


\* ------------------------------------------ calls on the handle returned

\* A transcript of n characters.
TranscriptOfLength(n) == [i \in 1..n |-> "a"]

\* Transcripts handed to a service method directly: empty, blank, short, of
\* exactly 5000 characters and of 5001.
ServiceTranscripts ==
    {<<>>, <<" ">>, <<"a", " ", "b">>, TranscriptOfLength(5000),
     TranscriptOfLength(5001)}

\* The caller holds the handle its create_service() call returned.
HoldsHandle(t) == pc[t] = "done" /\ result[t].kind = "return"

\* What the call of a service method leaves behind.
Invoked(provider, method, request, outcome, r) ==
    [pc |-> "done", provider |-> provider, method |-> method,
     photo_base64 |-> request.photo_base64, transcript |-> request.transcript,
     language |-> request.language,
     remote_calls |-> IF r.called THEN 1 ELSE 0,
     remote |-> IF r.called THEN outcome.kind ELSE "none",
     outcome |-> IF r.error = <<>> THEN "return" ELSE "raise",
     error |-> r.error,
     enhanced_transcript |-> r.result.enhanced_transcript,
     insights |-> r.result.insights]

\* service.enhance_story_with_photo(photo_base64, transcript, language) on
\* the handle create_service() returned: the method of the handle's class.
call_enhance_story_with_photo(t) ==
    /\ HoldsHandle(t)
    /\ \E photo_base64 \in Photos, transcript \in ServiceTranscripts,
          language \in Languages, outcome \in RemoteOutcomes :
          LET request == [kind |-> "photo", photo_base64 |-> photo_base64,
                          transcript |-> transcript, language |-> language]
              provider == result[t].value.name
              r == IF provider = "openai"
                   THEN openai_enhance_story_with_photo(request, outcome)
                   ELSE enhance_story_with_photo(request, outcome)
          IN  invocation' = Invoked(provider, "enhance_story_with_photo",
                                    request, outcome, r)

\* service.enhance_youtube_insight(source_transcript, user_transcript,
\* language) on a Gemini handle (the OpenAI class has no such method).
call_enhance_youtube_insight(t) ==
    /\ HoldsHandle(t)
    /\ result[t].value.name = "gemini"
    /\ \E transcript \in ServiceTranscripts, language \in Languages,
          outcome \in RemoteOutcomes :
          LET request == [kind |-> "youtube", photo_base64 |-> <<>>,
                          transcript |-> transcript, language |-> language]
          IN  invocation' = Invoked("gemini", "enhance_youtube_insight", request,
                                    outcome,
                                    enhance_youtube_insight(request, outcome))

\* A program that obtains a handle from the factory and calls its methods.
\* The OpenAI model is a vision model throughout.
ServiceInit ==
    /\ Init
    /\ settings.openai_model = "gpt-4-vision-preview"

ServiceNext ==
    \/ Quiet /\ cs_check_cache(Caller) /\ UNCHANGED <<diag, beyond>>
    \/ create_service(Caller) /\ UNCHANGED <<diag, beyond>>
    \/ call_enhance_story_with_photo(Caller)
          /\ UNCHANGED <<factory, diag, route, tts, store, prompts>>
    \/ call_enhance_youtube_insight(Caller)
          /\ UNCHANGED <<factory, diag, route, tts, store, prompts>>

ServiceSpec == ServiceInit /\ [][ServiceNext]_vars

\* The inputs _validate_inputs is to turn down.
BadInputs(photo_base64, transcript, language) ==
    \/ IsBlank(photo_base64)
    \/ IsBlank(transcript)
    \/ Len(transcript) > 5000
    \/ language \notin valid_languages

PhotoCall == invocation.method = "enhance_story_with_photo"
YouTubeCall == invocation.method = "enhance_youtube_insight"

\* C21: a call of enhance_story_with_photo, on a Gemini or an OpenAI handle,
\* with a blank photo, a blank transcript, a transcript of more than 5000
\* characters or an unsupported language raises the validation error and
\* makes no remote call; every other call, one with a transcript of exactly
\* 5000 characters included, passes validation and reaches the remote call.
C21_InputsCheckedFirst ==
    PhotoCall =>
        IF BadInputs(invocation.photo_base64, invocation.transcript,
                     invocation.language)
        THEN /\ invocation.outcome = "raise"
             /\ invocation.error \in ValidationMessages
             /\ invocation.remote_calls = 0
        ELSE /\ invocation.error \notin ValidationMessages
             /\ invocation.remote_calls = 1

\* C21 witness: an OpenAI handle was called with a transcript of exactly 5000
\* characters, a photo and a supported language, and the remote call was made.
C21_Witness ==
    /\ PhotoCall
    /\ invocation.provider = "openai"
    /\ Len(invocation.transcript) = 5000
    /\ invocation.language = "en"
    /\ ~IsBlank(invocation.photo_base64)
    /\ invocation.remote_calls = 1

\* C22: a result returned by enhance_story_with_photo has a non-empty
\* enhanced text and a non-empty insights mapping.
C22_ResultNeverEmpty ==
    PhotoCall /\ invocation.outcome = "return" =>
        /\ invocation.enhanced_transcript # <<>>
        /\ invocation.insights # {}

\* C23: enhance_youtube_insight turns down a blank user transcript, one of
\* more than 5000 characters and an unsupported language with the validation
\* error before any remote call.
C23_YouTubeValidatesLikePhoto ==
    YouTubeCall /\ BadInputs(<<"x">>, invocation.transcript, invocation.language) =>
        /\ invocation.outcome = "raise"
        /\ invocation.error \in ValidationMessages
        /\ invocation.remote_calls = 0

NoDuplicates(seq) ==
    \A i, j \in DOMAIN seq : i # j => seq[i] # seq[j]

\* C27: within a create_service() call no provider's construction is tried
\* twice and the primary is not among the fallback candidates; a call of
\* enhance_story_with_photo makes at most one remote call, and when that call
\* fails the method raises at once.
C27_NothingRetried ==
    /\ \A t \in Threads :
          /\ NoDuplicates(tried[t])
          /\ \A i \in DOMAIN fallback_providers[t] :
                fallback_providers[t][i] # primary_provider[t]
    /\ PhotoCall =>
          /\ invocation.remote_calls <= 1
          /\ invocation.remote \in {"raise", "text"} =>
                invocation.outcome = "raise" /\ invocation.remote_calls = 1

\* C27 witness: the primary's construction failed, a fallback was tried, and
\* the one remote call of the enhance call on its handle raised.
C27_Witness ==
    /\ Len(tried[Caller]) = 2
    /\ HoldsHandle(Caller)
    /\ PhotoCall
    /\ invocation.remote = "raise"
    /\ invocation.remote_calls = 1
    /\ invocation.outcome = "raise"

\* C24: a create-enhancement request that the provider's input validation
\* turned down (no remote call was made) is not answered 503, the status of
\* a failed backend call.
C24_InputErrorNotServiceUnavailable ==
    (Answered /\ route.remote = "none" /\ route.error \in ValidationMessages)
        => route.status # 503

\* -------------------------------------------- enhancement read endpoints

\* The public methods of TTSService (tts_service.py).
TTSServiceMethods ==
    {"generate_audio", "get_supported_languages", "get_available_voices"}

\* The user_id of the row with this id, whoever owns it.
OwnerOf(rows, enhancement_id) ==
    IF \E row \in rows : row.enhancement_id = enhancement_id
    THEN (CHOOSE row \in rows : row.enhancement_id = enhancement_id).user_id
    ELSE "None"

\* The answer of a read endpoint to user_id about enhancement_id.
Reply(endpoint, enhancement_id, user_id, db_ok, status) ==
    [NoReply EXCEPT !.endpoint = endpoint, !.enhancement_id = enhancement_id,
                    !.user_id = user_id,
                    !.query = IF db_ok THEN "ok" ELSE "failed",
                    !.owner = OwnerOf(store.rows, enhancement_id),
                    !.status = status]

\* GET /enhancements: the caller's rows (limit and offset at their defaults);
\* an exception of the query is answered with an empty list.
get_enhancements(user_id) ==
    \E db_ok \in BOOLEAN :
       store' = [store EXCEPT !.reply =
          [Reply("get_enhancements", 0, user_id, db_ok, 200) EXCEPT
              !.ids = IF db_ok
                      THEN {row.enhancement_id :
                              row \in {x \in store.rows : x.user_id = user_id}}
                      ELSE {}]]

\* GET /enhancements/{enhancement_id}
get_enhancement_by_id(enhancement_id, user_id) ==
    \E db_ok \in BOOLEAN :
       LET found == FindEnhancement(store.rows, enhancement_id, user_id)
       IN  store' = [store EXCEPT !.reply =
              IF ~db_ok
              THEN Reply("get_enhancement_by_id", enhancement_id, user_id, db_ok, 500)
              ELSE IF found = {}
              THEN Reply("get_enhancement_by_id", enhancement_id, user_id, db_ok, 404)
              ELSE LET enhancement == CHOOSE row \in found : TRUE
                   IN  [Reply("get_enhancement_by_id", enhancement_id, user_id,
                              db_ok, 200) EXCEPT
                           !.ids = {enhancement.enhancement_id},
                           !.audio_status = enhancement.audio_status]]

\* GET /enhancements/{enhancement_id}/audio: the row is looked up, a
\* TTSService is constructed and its generate_speech is called (line 258);
\* a class without that method gives an AttributeError, answered 500 by the
\* last except clause.  With the method the status is set to ready (a failed
\* commit is ignored) and the audio is answered as mp3.
get_enhancement_audio(enhancement_id, user_id) ==
    \E db_ok \in BOOLEAN, commit_ok \in BOOLEAN :
       LET found == FindEnhancement(store.rows, enhancement_id, user_id)
           answer(status) ==
               Reply("get_enhancement_audio", enhancement_id, user_id, db_ok, status)
       IN  IF ~db_ok
           THEN store' = [store EXCEPT !.reply = answer(500)]
           ELSE IF found = {}
           THEN store' = [store EXCEPT !.reply = answer(404)]
           ELSE IF "generate_speech" \notin TTSServiceMethods
           THEN store' = [store EXCEPT !.reply =
                             [answer(500) EXCEPT !.ids = {},
                                 !.audio_status =
                                     (CHOOSE row \in found : TRUE).audio_status]]
           ELSE LET enhancement == CHOOSE row \in found : TRUE
                    updated == IF commit_ok
                               THEN [enhancement EXCEPT !.audio_status = "ready"]
                               ELSE enhancement
                IN  store' = [store EXCEPT
                       !.rows = (@ \ {enhancement}) \cup {updated},
                       !.reply = [answer(200) EXCEPT
                                     !.ids = {enhancement_id},
                                     !.audio_status = updated.audio_status,
                                     !.audio_base64 = b64encode(mock_mp3_data),
                                     !.audio_format = "mp3"]]

\* A photo request that passes validation.
StoreRequests ==
    {[kind |-> "photo", photo_base64 |-> <<"/", "9", "j">>,
      transcript |-> <<"a", " ", "b">>, language |-> "en"]}

EnhancementIds == 1..MaxEnhancements

\* The enhancement endpoints served to two users, one request at a time.
\* The factory's settings play no part in these endpoints and are fixed.
StoreInit ==
    /\ RouteInit
    /\ settings = [ai_provider |-> "gemini", gemini_api_key |-> "test_key",
                   openai_api_key |-> NoKey,
                   openai_model |-> "gpt-4-vision-preview"]
    /\ backend_ok["openai"]

StoreNext ==
    \/ (\E r \in StoreRequests, user_id \in Users : create_enhancement(r, user_id))
          /\ UNCHANGED <<factory, diag, tts, invocation, prompts>>
    \/ ce_construct /\ UNCHANGED <<factory, diag, tts, invocation, store, prompts>>
    \/ ce_enhance /\ UNCHANGED <<factory, diag, tts, invocation, store, prompts>>
    \/ ce_save_and_respond /\ UNCHANGED <<factory, diag, tts, invocation, prompts>>
    \/ ce_handle_gemini_error /\ UNCHANGED <<factory, diag, tts, invocation, store, prompts>>
    \/ ce_handle_exception /\ UNCHANGED <<factory, diag, tts, invocation, store, prompts>>
    \/ RouteIdle /\ (\E user_id \in Users : get_enhancements(user_id))
          /\ UNCHANGED <<factory, diag, route, tts, invocation, prompts>>
    \/ RouteIdle
          /\ (\E enhancement_id \in EnhancementIds, user_id \in Users :
                 get_enhancement_by_id(enhancement_id, user_id))
          /\ UNCHANGED <<factory, diag, route, tts, invocation, prompts>>
    \/ RouteIdle
          /\ (\E enhancement_id \in EnhancementIds, user_id \in Users :
                 get_enhancement_audio(enhancement_id, user_id))
          /\ UNCHANGED <<factory, diag, route, tts, invocation, prompts>>

StoreSpec == StoreInit /\ [][StoreNext]_vars

\* The step in which a read endpoint answers.
Reads(endpoint) ==
    store'.reply # store.reply /\ store'.reply.endpoint = endpoint

\* C25: when the latest create-enhancement response was 200 with an
\* enhancement id, the same user's get_enhancement_by_id for that id (its
\* query working) answers 200 with that id.
C25_ReturnedIdCanBeFetched ==
    [][ ( /\ route.pc = "done"
          /\ route.status = 200
          /\ Reads("get_enhancement_by_id")
          /\ store'.reply.enhancement_id = route.enhancement_id
          /\ store'.reply.user_id = route.user_id
          /\ store'.reply.query = "ok" )
        => /\ store'.reply.status = 200
           /\ route.enhancement_id \in store'.reply.ids ]_vars

\* C26: get_enhancement_audio for an enhancement of the caller answers 200
\* with non-empty base64 audio in mp3 format and leaves the record's
\* audio_status "ready".
C26_AudioGeneratedAndMarkedReady ==
    [][ ( /\ Reads("get_enhancement_audio")
          /\ store'.reply.query = "ok"
          /\ store'.reply.owner = store'.reply.user_id )
        => /\ store'.reply.status = 200
           /\ store'.reply.audio_base64 # ""
           /\ store'.reply.audio_format = "mp3"
           /\ \A row \in store'.rows :
                 row.enhancement_id = store'.reply.enhancement_id
                     => row.audio_status = "ready" ]_vars

\* C28: every id a read endpoint exposes is the id of a row of the caller;
\* the details and audio endpoints answer a request for another user's
\* enhancement with 404 and nothing else, as they answer a request for an id
\* that does not exist, and leave the table as it is.
C28_ReadsExposeOnlyOwnRecords ==
    [][ store'.reply # store.reply =>
          LET r == store'.reply
          IN  /\ \A id \in r.ids :
                    \E row \in store.rows : /\ row.enhancement_id = id
                                            /\ row.user_id = r.user_id
              /\ ( /\ r.endpoint \in {"get_enhancement_by_id",
                                      "get_enhancement_audio"}
                   /\ r.query = "ok"
                   /\ r.owner # r.user_id )
                 => /\ r.status = 404
                    /\ r.ids = {}
                    /\ r.audio_status = "None"
                    /\ r.audio_base64 = ""
                    /\ store'.rows = store.rows ]_vars

\* C28 witness: the audio of an enhancement of another user was requested and
\* the answer was 404; the record is still not_generated.
C28_Witness ==
    /\ store.reply.endpoint = "get_enhancement_audio"
    /\ store.reply.query = "ok"
    /\ store.reply.owner \notin {"None", store.reply.user_id}
    /\ store.reply.status = 404
    /\ \E row \in store.rows :
          /\ row.enhancement_id = store.reply.enhancement_id
          /\ row.user_id = store.reply.owner
          /\ row.audio_status = "not_generated"

\* ------------------------------------------------- reported capabilities

\* supports_vision() of a service object: True for GeminiService; for
\* OpenAIService whether the model it was constructed with is a vision model.
supports_vision(h) == h.name = "gemini" \/ h.model \in vision_models

\* AIServiceFactory.get_current_provider
get_current_provider ==
    IF IsSet(_service_cache) THEN _service_cache.name ELSE "None"

\* C29: while a handle is cached, the supports_vision entry of
\* get_provider_capabilities(get_current_provider()) equals supports_vision()
\* of that handle, the one create_service() returns.
C29_ReportedVisionMatchesHandle ==
    IsSet(_service_cache) =>
        get_provider_capabilities(get_current_provider, settings).supports_vision
            = supports_vision(_service_cache)

\* -------------------------------------------------------- prompt manager

\* Modification times a prompt file takes.
MaxMtime == 3

\* What a prompt file holds: a template (told apart by its version), text
\* that is not YAML or not a mapping, or a mapping PromptTemplate rejects.
Contents ==
    { [kind |-> "template", version |-> 1], [kind |-> "template", version |-> 2],
      [kind |-> "malformed", version |-> 0], [kind |-> "bad_fields", version |-> 0] }

\* PromptManager._load_prompt_file: whether a template came back, the
\* template, and the modification time recorded for the category (line 113
\* records it before PromptTemplate(**prompt_data) validates the fields).
_load_prompt_file(file, recorded) ==
    IF ~file.exists \/ file.kind = "malformed"
    THEN [ok |-> FALSE, template |-> NoTemplate, mtime |-> recorded]
    ELSE IF file.kind = "bad_fields"
    THEN [ok |-> FALSE, template |-> NoTemplate, mtime |-> file.mtime]
    ELSE [ok |-> TRUE, template |-> file.version, mtime |-> file.mtime]

\* PromptManager._should_reload, for a configured category
_should_reload(hot_reload, file, recorded) ==
    hot_reload /\ file.exists /\ file.mtime > recorded

\* A reload whose failure empties the cache entry.
reload_into_cache_dropping(cached, loaded) ==
    IF loaded.ok THEN loaded.template ELSE NoTemplate

\* get_prompt lines 146-152: the cache entry after the reload attempt; a
\* failed load is passed over.
reload_into_cache(cached, loaded) ==
    IF loaded.ok THEN loaded.template ELSE cached

\* The prompt file of a category is written or touched.
write_prompt_file(category, content, mtime) ==
    /\ prompts.pc = "ready"
    /\ prompts' = [prompts EXCEPT
          !.files[category] = [exists |-> TRUE, mtime |-> mtime,
                               kind |-> content.kind,
                               version |-> content.version],
          !.category = "None", !.reload = "none", !.outcome = "none",
          !.template = NoTemplate]

\* The prompt file of a category is removed.
delete_prompt_file(category) ==
    /\ prompts.pc = "ready"
    /\ prompts.files[category].exists
    /\ prompts' = [prompts EXCEPT
          !.files[category] = NoFile,
          !.category = "None", !.reload = "none", !.outcome = "none",
          !.template = NoTemplate]

\* PromptManager.get_prompt for a category the configuration does not list:
\* _get_category_file_path raises.
get_prompt_unknown ==
    /\ prompts.pc = "ready"
    /\ prompts' = [prompts EXCEPT !.category = "unknown", !.reload = "none",
                                  !.outcome = "raise", !.template = NoTemplate]

\* PromptManager.get_prompt for a configured category
get_prompt(category) ==
    /\ prompts.pc = "ready"
    /\ LET file == prompts.files[category]
           recorded == prompts._file_mtimes[category]
           cached == prompts._prompt_cache[category]
           should == _should_reload(prompts.hot_reload, file, recorded)
           loaded == _load_prompt_file(file, recorded)
           entry == IF should THEN reload_into_cache(cached, loaded) ELSE cached
           mtime == IF should THEN loaded.mtime ELSE recorded
           again == _load_prompt_file(file, mtime)
       IN  prompts' = [prompts EXCEPT
              !._prompt_cache[category] =
                  IF entry = NoTemplate /\ again.ok THEN again.template ELSE entry,
              !._file_mtimes[category] =
                  IF entry = NoTemplate THEN again.mtime ELSE mtime,
              !.category = category,
              !.reload = IF ~should THEN "none"
                         ELSE IF loaded.ok THEN "ok" ELSE "failed",
              !.outcome = IF entry = NoTemplate /\ ~again.ok
                          THEN "raise" ELSE "return",
              !.template = IF entry = NoTemplate
                           THEN again.template ELSE entry]

\* PromptManager.__init__ has loaded every category's file (reload_prompts
\* raises otherwise): the cache holds each template and its file's time.
PromptInit ==
    /\ FactoryInit
    /\ settings = [ai_provider |-> "gemini", gemini_api_key |-> "test_key",
                   openai_api_key |-> NoKey,
                   openai_model |-> "gpt-4-vision-preview"]
    /\ backend_ok = [p \in Backends |-> TRUE]
    /\ enable_fallback = TRUE
    /\ probe = NoProbe
    /\ probed = {}
    /\ route = NoRequest
    /\ tts = NoTTS
    /\ invocation = NoCall
    /\ store = EmptyStore
    /\ \E hot_reload \in BOOLEAN :
          prompts = [NoPrompts EXCEPT
             !.pc = "ready", !.hot_reload = hot_reload,
             !.files = [c \in Categories |->
                          [exists |-> TRUE, mtime |-> 1, kind |-> "template",
                           version |-> 1]],
             !._prompt_cache = [c \in Categories |-> 1],
             !._file_mtimes = [c \in Categories |-> 1]]

PromptNext ==
    \/ (\E category \in Categories, content \in Contents, mtime \in 1..MaxMtime :
           write_prompt_file(category, content, mtime))
          /\ UNCHANGED <<factory, diag, route, tts, invocation, store>>
    \/ (\E category \in Categories : delete_prompt_file(category))
          /\ UNCHANGED <<factory, diag, route, tts, invocation, store>>
    \/ (\E category \in Categories : get_prompt(category))
          /\ UNCHANGED <<factory, diag, route, tts, invocation, store>>
    \/ get_prompt_unknown
          /\ UNCHANGED <<factory, diag, route, tts, invocation, store>>

PromptSpec == PromptInit /\ [][PromptNext]_vars

\* C30: with hot reload on, a get_prompt(category) that finds the file newer
\* than the recorded time returns the file's template and caches it when the
\* file loads, and when it does not load returns the cached template without
\* raising and leaves the cache entry as it was.
C30_FailedReloadKeepsCachedTemplate ==
    [][ ( /\ prompts.hot_reload
          /\ prompts'.category \in Categories
          /\ prompts'.outcome # "none"
          /\ prompts' # prompts )
        => LET c == prompts'.category
               file == prompts.files[c]
               newer == file.exists /\ file.mtime > prompts._file_mtimes[c]
           IN  /\ (newer /\ file.kind = "template") =>
                     /\ prompts'.outcome = "return"
                     /\ prompts'.template = file.version
                     /\ prompts'._prompt_cache[c] = file.version
               /\ (newer /\ file.kind # "template") =>
                     /\ prompts'.outcome = "return"
                     /\ prompts'.template = prompts._prompt_cache[c]
                     /\ prompts'.template # NoTemplate
                     /\ prompts'._prompt_cache[c] = prompts._prompt_cache[c] ]_vars

\* C30 witness: a file newer than the recorded time did not load, and
\* get_prompt returned the template cached from an earlier reload.
C30_Witness ==
    /\ prompts.hot_reload
    /\ prompts.category \in Categories
    /\ prompts.reload = "failed"
    /\ prompts.outcome = "return"
    /\ prompts.template = 2
    /\ prompts._prompt_cache[prompts.category] = 2

====
